---- MODULE Spec2Model ----
(***************************************************************************)
(* Model of the duva cluster actor (domains/cluster_actors/actor.rs):      *)
(* Raft-style replication inside one replication group, the consensus      *)
(* tracker with client callbacks, and the block / migrate / unblock cycle  *)
(* of a hash-ring reconfiguration.                                         *)
(***************************************************************************)
EXTENDS Integers, Sequences, FiniteSets, TLC

Nodes == {1, 2, 3}

\* Bounds of the model.
MaxTerm == 1
MaxLog == 2
MaxChan == 2
MaxWalFail == 1
MaxElectionLog == 1
MaxBatchSeq == 1
MaxMeet == 2
MaxMigLog == 2
MaxTag == 2
MaxRedeliverLog == 1
MaxVoteTerm == 2
MaxBanCmds == 2
MaxNow == 90
MaxBanInFlight == 2
TickSecs == 30
MaxDivergedLog == 2
MaxGapLog == 3
MaxFanout == 5
MaxNodeCount == 40
MaxArgs == 4
MaxForget == 1
MaxQuorumLog == 2
MaxRingMeet == 3
MaxSubArgs == 2

\* Client write requests: a request and its session token.
\* tag is 0 until the request is queued in pending_requests, then the order
\* of its arrival there (history, to compare queueing order with commit order).
ClientWrites == {[req |-> "x", sess |-> "s1", tag |-> 0],
                 [req |-> "y", sess |-> "s2", tag |-> 0]}

VARIABLES
    term,             \* replication.term
    role,             \* replication.role
    election_state,   \* replication.election_state
    hwm,              \* replication.hwm
    replid,           \* replication.replid
    log,              \* logger: the write-ahead log, a sequence of entries
    members,          \* members: peer id -> [replid, role, match_index]
    consensus_tracker,\* consensus_tracker: set of votings keyed by log index
    client_sessions,  \* client_sessions: session tokens with a stored response
    sched,            \* heartbeat_scheduler mode
    chan,             \* per-peer outbound queues, <<from, to>> -> messages
    walFails,         \* number of WAL write failures injected so far
    event,            \* what the last actor step emitted (ack or callback)
    commits,          \* per node, the log indices completed with LogIndex, in order
    applied,          \* per node, the log indices applied to the cache, in order
    hash_ring,        \* hash_ring: [partitions, last_modified]
    pending_requests, \* Option<VecDeque<ConsensusRequest>>: <<>> is None, <<q>> is Some(q)
    pending_migrations,\* Option<HashMap<BatchId, PendingMigrationBatch>>, likewise
    cache,            \* the keys held by the node's cache manager
    meets,            \* number of eager CLUSTER MEET commands handled so far
    tasks,            \* spawned helper tasks that have not finished
    batch_seq,        \* number of migration plans made so far (fresh batch ids)
    tag_seq,          \* number of requests queued in pending_requests so far
    drained,          \* the tag sequences handed to a drain task, one per unblock
    banlist,          \* replication.banlist: per node, a set of BannedPeer
    now,              \* the wall clock in seconds (time_in_secs)
    ban_cmds,         \* number of peers forgotten, added or dropped as idle so far
    truncated,        \* history: <<follower, leader>> for every truncate_after on a term mismatch
    handles,          \* per node, the peer handles that have not been killed
    call,             \* the function applied outside the actor, with its arguments
    ret               \* what the function returned

replVars == <<term, role, election_state, hwm, replid, log, members,
              consensus_tracker, client_sessions, sched, chan, walFails,
              event, commits, applied>>

migVars == <<hash_ring, pending_requests, pending_migrations, cache, meets, tasks,
             batch_seq, tag_seq, drained>>

banVars == <<banlist, now, ban_cmds>>

pureVars == <<call, ret>>

\* the ban list, the history of truncations, the peer handles and the
\* function calls
restVars == <<banVars, truncated, handles, pureVars>>

vars == <<replVars, migVars, restVars>>

None == <<>>

Some(x) == <<x>>

NoEvent == [type |-> "none"]

----------------------------------------------------------------------------
\* ReplicatedLog facade

LastLogIndex(lg) == IF lg = <<>> THEN 0 ELSE lg[Len(lg)].log_index

LastLogTerm(lg) == IF lg = <<>> THEN 0 ELSE lg[Len(lg)].term

\* read_at(index): the entry at that index, as a set of zero or one entries
ReadAt(lg, i) == {lg[k] : k \in {j \in 1..Len(lg) : lg[j].log_index = i}}

TruncateAfter(lg, i) == SelectSeq(lg, LAMBDA e : e.log_index <= i)

ListAppendLogEntries(lg, wm) == SelectSeq(lg, LAMBDA e : e.log_index > wm)

WriteSingleEntry(lg, w, t) ==
    Append(lg, [log_index |-> LastLogIndex(lg) + 1, term |-> t,
                req |-> w.req, sess |-> w.sess, tag |-> w.tag])

FollowerWriteEntries(lg, entries) == lg \o entries

----------------------------------------------------------------------------
\* Membership helpers

IsReplica(n, p) == p \in DOMAIN members[n] /\ members[n][p].replid = replid[n]

Replicas(n) == {p \in DOMAIN members[n] : IsReplica(n, p)}

SetMin(S) == CHOOSE x \in S : \A y \in S : x <= y

\* The highest match index of the replicas instead of the lowest.
TakeHighWatermark(n) ==
    CHOOSE x \in {members[n][p].match_index : p \in Replicas(n)} :
        \A q \in Replicas(n) : members[n][q].match_index <= x

TakeLowWatermark(n) == SetMin({members[n][p].match_index : p \in Replicas(n)})

SetMatchIndex(mem, p, i) ==
    IF p \in DOMAIN mem THEN [mem EXCEPT ![p].match_index = i] ELSE mem

----------------------------------------------------------------------------
\* Messages

DefaultHeartbeat(n) ==
    [from |-> n, term |-> term[n], hwm |-> hwm[n],
     prev_log_index |-> LastLogIndex(log[n]),
     prev_log_term |-> LastLogTerm(log[n]),
     append_entries |-> <<>>,
     ban_list |-> banlist[n]]

Ack(n, idx) ==
    [type |-> "ReplicationAck", from |-> n, log_idx |-> idx,
     term |-> term[n], rej_reason |-> "None"]

RejectLogInconsistency(n, idx, reason) ==
    [type |-> "ReplicationAck", from |-> n, log_idx |-> idx,
     term |-> term[n], rej_reason |-> "LogInconsistency"]

Reject(n, idx, reason) ==
    [type |-> "ReplicationAck", from |-> n, log_idx |-> idx,
     term |-> term[n], rej_reason |-> reason]

\* peer.send on the members of n: outs maps a destination to the messages
\* queued for it, in order; a destination that is no member gets nothing.
SendAll(ch, n, outs) ==
    [pr \in DOMAIN ch |->
        IF pr[1] = n /\ pr[2] \in DOMAIN outs /\ pr[2] \in DOMAIN members[n]
        THEN ch[pr] \o outs[pr[2]] ELSE ch[pr]]

ChanOK(ch) == \A pr \in DOMAIN ch : Len(ch[pr]) <= MaxChan

----------------------------------------------------------------------------
\* Follower replication

\* ensure_prev_consistency: whether the previous entry is consistent, and the
\* log it leaves (truncated on a term mismatch).
EnsurePrevConsistency(lg, prev_log_index, prev_log_term) ==
    IF lg = <<>>
    THEN [ok |-> prev_log_index = 0, log |-> lg]
    ELSE IF \E e \in ReadAt(lg, prev_log_index) : e.term # prev_log_term
         THEN [ok |-> FALSE, log |-> TruncateAfter(lg, prev_log_index)]
         ELSE [ok |-> TRUE, log |-> lg]

\* The entries of the rpc the follower keeps: those beyond its last index,
\* with their session request taken out.
EntriesToWrite(lg, rpc_entries) ==
    LET kept == SelectSeq(rpc_entries, LAMBDA e : e.log_index > LastLogIndex(lg))
    IN [i \in 1..Len(kept) |-> [kept[i] EXCEPT !.sess = "none"]]

SessionReqs(lg, rpc_entries) ==
    {rpc_entries[i].sess : i \in {j \in 1..Len(rpc_entries) :
        rpc_entries[j].log_index > LastLogIndex(lg)}} \ {"none"}

\* replicate_log_entries: [ok, reason, log, acked, match_index, sessions]
ReplicateLogEntries(lg, rpc, walOk) ==
    IF rpc.append_entries = <<>>
    THEN [ok |-> TRUE, reason |-> "None", log |-> lg, acked |-> FALSE,
          match_index |-> 0, sessions |-> {}]
    ELSE LET entries == EntriesToWrite(lg, rpc.append_entries)
             c == EnsurePrevConsistency(lg, rpc.prev_log_index, rpc.prev_log_term)
         IN IF ~c.ok
            THEN [ok |-> FALSE, reason |-> "LogInconsistency", log |-> c.log,
                  acked |-> FALSE, match_index |-> 0, sessions |-> {}]
            ELSE IF ~walOk
            THEN [ok |-> FALSE, reason |-> "FailToWrite", log |-> lg,
                  acked |-> FALSE, match_index |-> 0, sessions |-> {}]
            ELSE LET lg2 == FollowerWriteEntries(lg, entries)
                 IN [ok |-> TRUE, reason |-> "None", log |-> lg2, acked |-> TRUE,
                     match_index |-> LastLogIndex(lg2),
                     sessions |-> SessionReqs(lg, rpc.append_entries)]

\* replicate_state: [hwm, applied, rejected]
ReplicateState(lg, old_hwm, leader_hwm) ==
    IF leader_hwm > old_hwm
    THEN LET missing == {i \in (old_hwm + 1)..leader_hwm : ReadAt(lg, i) = {}}
         IN IF missing = {}
            THEN [hwm |-> leader_hwm,
                  applied |-> [i \in 1..(leader_hwm - old_hwm) |-> old_hwm + i],
                  rejected |-> FALSE]
            ELSE [hwm |-> old_hwm,
                  applied |-> [i \in 1..(SetMin(missing) - 1 - old_hwm) |-> old_hwm + i],
                  rejected |-> TRUE]
    ELSE [hwm |-> old_hwm, applied |-> <<>>, rejected |-> FALSE]

\* maybe_update_term: the role it leaves
MaybeUpdateTermRoleKeep(bump, old_role) == old_role

MaybeUpdateTermRole(bump, old_role) == IF bump THEN "Follower" ELSE old_role

\* append_entries_rpc, with check_term_outdated, reset_election_timeout,
\* maybe_update_term and replicate. ch0 is chan without the message handled.
AppendEntriesRPC(n, hb, ch0) ==
    IF hb.term < term[n]
    THEN /\ chan' = SendAll(ch0, n, (hb.from :> <<Reject(n, LastLogIndex(log[n]),
                                                  "ReceiverHasHigherTerm")>>))
         /\ event' = NoEvent
         /\ UNCHANGED <<term, role, election_state, hwm, log, client_sessions,
                        applied, walFails>>
    ELSE LET bump == hb.term > term[n]
             role1 == MaybeUpdateTermRole(bump, role[n])
         IN /\ term' = [term EXCEPT ![n] = IF bump THEN hb.term ELSE @]
            /\ role' = [role EXCEPT ![n] = role1]
            /\ election_state' = [election_state EXCEPT ![n] =
                  [kind |-> "Follower", voted_for |-> {}]]
            /\ IF role1 = "Leader"
               THEN /\ chan' = ch0
                    /\ event' = NoEvent
                    /\ UNCHANGED <<hwm, log, client_sessions, applied, walFails>>
               ELSE \E walOk \in IF walFails < MaxWalFail
                                    /\ EntriesToWrite(log[n], hb.append_entries) # <<>>
                                    /\ EnsurePrevConsistency(log[n], hb.prev_log_index,
                                                             hb.prev_log_term).ok
                                 THEN {TRUE, FALSE} ELSE {TRUE} :
                    LET r == ReplicateLogEntries(log[n], hb, walOk)
                        st == ReplicateState(r.log, hwm[n], hb.hwm)
                        me == [type |-> "ReplicationAck", from |-> n,
                               term |-> IF bump THEN hb.term ELSE term[n]]
                    IN /\ log' = [log EXCEPT ![n] = r.log]
                       /\ walFails' = IF walOk THEN walFails ELSE walFails + 1
                       /\ IF ~r.ok
                          THEN /\ chan' = SendAll(ch0, n, (hb.from :>
                                    <<me @@ [log_idx |-> LastLogIndex(r.log),
                                             rej_reason |-> r.reason]>>))
                               /\ event' = NoEvent
                               /\ UNCHANGED <<hwm, client_sessions, applied>>
                          ELSE /\ chan' = SendAll(ch0, n, (hb.from :>
                                    (IF r.acked
                                     THEN <<me @@ [log_idx |-> r.match_index,
                                                   rej_reason |-> "None"]>>
                                     ELSE <<>>) \o
                                    (IF st.rejected
                                     THEN <<me @@ [log_idx |-> LastLogIndex(r.log),
                                                   rej_reason |-> "LogInconsistency"]>>
                                     ELSE <<>>)))
                               /\ client_sessions' = [client_sessions EXCEPT ![n] =
                                                         @ \cup r.sessions]
                               /\ hwm' = [hwm EXCEPT ![n] = st.hwm]
                               /\ applied' = [applied EXCEPT ![n] = @ \o st.applied]
                               /\ event' = IF r.acked
                                           THEN [type |-> "ack", node |-> n,
                                                 leader |-> hb.from,
                                                 log_idx |-> r.match_index]
                                           ELSE NoEvent

\* Whether append_entries_rpc reaches the truncate_after of
\* ensure_prev_consistency: the rpc is not outdated, the node is no leader
\* after maybe_update_term, the rpc carries entries and the entry at
\* prev_log_index has another term.
TruncatesOnMismatch(n, hb) ==
    /\ hb.term >= term[n]
    /\ hb.term > term[n] \/ role[n] # "Leader"
    /\ hb.append_entries # <<>>
    /\ log[n] # <<>>
    /\ ~EnsurePrevConsistency(log[n], hb.prev_log_index, hb.prev_log_term).ok

----------------------------------------------------------------------------
\* Leader replication

\* iter_follower_append_entries: the append-entries heartbeat for replica p,
\* built from log lg of leader n.
FollowerHeartbeat(n, lg, p) ==
    LET append_entries == ListAppendLogEntries(lg, TakeLowWatermark(n))
        default_heartbeat == [DefaultHeartbeat(n) EXCEPT
                                 !.prev_log_index = LastLogIndex(lg),
                                 !.prev_log_term = LastLogTerm(lg)]
    IN IF append_entries = <<>>
       THEN default_heartbeat
       ELSE LET backup_entry == ReadAt(lg, append_entries[1].log_index - 1)
                logs == SelectSeq(append_entries,
                           LAMBDA op : op.log_index > members[n][p].match_index)
                prev == IF Len(logs) = Len(append_entries)
                        THEN IF backup_entry # {}
                             THEN CHOOSE e \in backup_entry : TRUE
                             ELSE [log_index |-> 0, term |-> 0]
                        ELSE append_entries[Len(append_entries) - Len(logs)]
            IN [default_heartbeat EXCEPT
                   !.prev_log_index = prev.log_index,
                   !.prev_log_term = prev.term,
                   !.append_entries = logs]

\* send_rpc_to_replicas: one AppendEntriesRPC per replica
RpcToReplicas(n, lg) ==
    [p \in Replicas(n) |->
        <<[type |-> "AppendEntriesRPC", hb |-> FollowerHeartbeat(n, lg, p)]>>]

\* LogConsensusTracker.add: majority minus self
RequiredVotes(replica_count) == (replica_count + 2) \div 2 - 1

NoResp == [kind |-> "none", idx |-> 0]

\* req_consensus as a function of the state of n: the log, hwm and tracker it
\* leaves, the messages it sends and the response it gives the callback.
ReqConsensus(n, w, cb, walOk) ==
    IF role[n] # "Leader"
    THEN [log |-> log[n], hwm |-> hwm[n], tracker |-> consensus_tracker[n],
          outs |-> <<>>, resp |-> [kind |-> "NotLeader", idx |-> 0]]
    ELSE IF ~walOk
    THEN [log |-> log[n], hwm |-> hwm[n], tracker |-> consensus_tracker[n],
          outs |-> <<>>, resp |-> [kind |-> "Err", idx |-> 0]]
    ELSE LET lg2 == WriteSingleEntry(log[n], w, term[n])
             repl_cnt == Cardinality(Replicas(n))
         IN IF repl_cnt = 0
            THEN [log |-> lg2, hwm |-> hwm[n] + 1,
                  tracker |-> consensus_tracker[n], outs |-> <<>>,
                  resp |-> [kind |-> "LogIndex", idx |-> LastLogIndex(lg2)]]
            ELSE [log |-> lg2, hwm |-> hwm[n],
                  tracker |-> {v \in consensus_tracker[n] :
                                  v.idx # LastLogIndex(lg2)} \cup
                              {[idx |-> LastLogIndex(lg2), voters |-> {}, cnt |-> 0,
                                required |-> RequiredVotes(repl_cnt),
                                sess |-> w.sess, req |-> w.req, cb |-> cb]},
                  outs |-> RpcToReplicas(n, lg2), resp |-> NoResp]

\* What a completed callback shows: the response sent on it.
Response(n, cb, req, sess, resp) ==
    [type |-> "resp", node |-> n, cb |-> cb, req |-> req, sess |-> sess,
     kind |-> resp.kind, idx |-> resp.idx]

\* The task that awaits an internal callback (receive_batch,
\* handle_migration_ack) becomes runnable once the callback is completed.
CallbackTasks(n, cb, resp) ==
    IF cb.kind = "client" \/ resp.kind = "none" THEN {}
    ELSE {[type |-> cb.kind, node |-> n, batch |-> cb.batch, resp |-> resp.kind]}

WalChoices == IF walFails < MaxWalFail THEN {TRUE, FALSE} ELSE {TRUE}

\* HashRing.get_node_for_keys: the owner of the first key. Pref is the order
\* in which the ring is walked from the key's position.
Pref(key) == IF key = "x" THEN <<"g2", "g1", "g3">>
             ELSE IF key = "z" THEN <<"g3", "g1", "g2">>
             ELSE <<"g1", "g2", "g3">>

\* A lookup that walks every group, in the ring or not.
GetNodeForKeysAnyGroup(ring, key) == Pref(key)[1]

GetNodeForKeys(ring, key) ==
    LET ids == {pt[1] : pt \in ring.partitions}
        walk == SelectSeq(Pref(key), LAMBDA g : g \in ids)
    IN IF walk = <<>> THEN "Err" ELSE walk[1]

\* A leader_req_consensus that never takes the pending_requests branch.
IsBlockedNever(pr) == FALSE

\* "if let Some(pending_requests) = self.pending_requests.as_mut()"
IsBlocked(pr) == pr # None

\* leader_req_consensus (tasks is left to the caller: the sender of the
\* command may be a spawned task that the step advances)
LeaderReqConsensus(n, w) ==
    IF IsBlocked(pending_requests[n])
    THEN LET queued == IF w.tag = 0 THEN [w EXCEPT !.tag = tag_seq + 1] ELSE w
         IN /\ pending_requests' = [pending_requests EXCEPT
                                       ![n] = Some(Append(@[1], queued))]
            /\ tag_seq' = IF w.tag = 0 THEN tag_seq + 1 ELSE tag_seq
            /\ event' = [type |-> "queued", node |-> n, w |-> queued]
            /\ UNCHANGED <<term, role, election_state, hwm, replid, log, members,
                           consensus_tracker, client_sessions, sched, chan,
                           walFails, commits, applied>>
            /\ UNCHANGED <<hash_ring, pending_migrations, cache, meets, restVars, batch_seq,
                           drained>>
    ELSE /\ UNCHANGED <<hash_ring, pending_requests, pending_migrations, cache,
                        meets, restVars, batch_seq, tag_seq, drained>>
         /\ UNCHANGED <<term, role, election_state, replid, members,
                        client_sessions, sched, applied>>
         /\ IF w.sess \in client_sessions[n]
            THEN /\ event' = Response(n, [kind |-> "client"], w.req, w.sess,
                                      [kind |-> "AlreadyProcessed",
                                       idx |-> LastLogIndex(log[n])])
                 /\ UNCHANGED <<hwm, log, consensus_tracker, chan, walFails, commits>>
            ELSE LET owner == GetNodeForKeys(hash_ring[n], w.req)
                 IN IF owner = replid[n]
                    THEN \E walOk \in WalChoices :
                         LET r == ReqConsensus(n, w, [kind |-> "client"], walOk)
                         IN /\ log' = [log EXCEPT ![n] = r.log]
                            /\ hwm' = [hwm EXCEPT ![n] = r.hwm]
                            /\ consensus_tracker' =
                                  [consensus_tracker EXCEPT ![n] = r.tracker]
                            /\ chan' = SendAll(chan, n, r.outs)
                            /\ walFails' = IF walOk \/ role[n] # "Leader"
                                           THEN walFails ELSE walFails + 1
                            /\ event' = IF r.resp.kind = "none" THEN NoEvent
                                        ELSE Response(n, [kind |-> "client"],
                                                      w.req, w.sess, r.resp)
                            /\ commits' = IF r.resp.kind = "LogIndex"
                                          THEN [commits EXCEPT ![n] =
                                                   Append(@, r.resp.idx)]
                                          ELSE commits
                    ELSE /\ event' = Response(n, [kind |-> "client"], w.req, w.sess,
                                 [kind |-> IF owner = "Err" THEN "Err" ELSE "MOVED",
                                  idx |-> 0]) @@ [replid |-> owner]
                         /\ UNCHANGED <<hwm, log, consensus_tracker, chan,
                                        walFails, commits>>

\* send_rpc: the periodic append-entries of a node whose scheduler is in
\* leader mode
SendRpc(n) ==
    /\ sched[n] = "leader"
    /\ Replicas(n) # {}
    /\ chan' = SendAll(chan, n, RpcToReplicas(n, log[n]))
    /\ event' = NoEvent
    /\ UNCHANGED <<term, role, election_state, hwm, replid, log, members,
                   consensus_tracker, client_sessions, sched, walFails,
                   commits, applied>>
    /\ UNCHANGED <<migVars, restVars>>

\* step_down: vote_for(None) and the scheduler's follower mode
StepDownState == [kind |-> "Follower", voted_for |-> {}]

\* A track_replication_progress that stores the acknowledged index in hwm.
CommitHwmStore(old_hwm, log_idx) == log_idx

\* track_replication_progress: "self.replication.hwm.fetch_add(1, ..)"
CommitHwm(old_hwm, log_idx) == old_hwm + 1

\* ack_replication, with handle_repl_rejection, update_peer_index and
\* track_replication_progress
\* LogConsensusVoting: a peer that has voted for the index is not votable
\* again; a vote adds the peer to the voters and one to the count.
VotableAlways(c, from) == TRUE

Votable(c, from) == from \notin c.voters

IncreaseVote(c, from) ==
    [c EXCEPT !.voters = @ \cup {from}, !.cnt = @ + 1]

AckReplication(n, res, ch0) ==
    /\ chan' = ch0
    /\ UNCHANGED <<term, replid, log, walFails, applied>>
    /\ UNCHANGED <<hash_ring, pending_requests, pending_migrations, cache, meets, restVars,
                   batch_seq, tag_seq, drained>>
    /\ IF res.rej_reason # "None"
       THEN /\ event' = NoEvent
            /\ UNCHANGED <<hwm, consensus_tracker, client_sessions, commits, tasks>>
            /\ IF res.rej_reason = "ReceiverHasHigherTerm"
               THEN /\ election_state' = [election_state EXCEPT ![n] = StepDownState]
                    /\ role' = [role EXCEPT ![n] = "Follower"]
                    /\ sched' = [sched EXCEPT ![n] = "follower"]
                    /\ UNCHANGED members
               ELSE /\ members' = [members EXCEPT ![n] =
                          IF res.rej_reason = "LogInconsistency"
                          THEN SetMatchIndex(@, res.from, res.log_idx) ELSE @]
                    /\ UNCHANGED <<election_state, role, sched>>
       ELSE /\ members' = [members EXCEPT ![n] =
                              SetMatchIndex(@, res.from, res.log_idx)]
            /\ UNCHANGED <<election_state, role, sched>>
            /\ LET found == {v \in consensus_tracker[n] : v.idx = res.log_idx}
               IN IF found = {}
                  THEN /\ event' = NoEvent
                       /\ UNCHANGED <<hwm, consensus_tracker, client_sessions,
                                      commits, tasks>>
                  ELSE LET c == CHOOSE v \in found : TRUE
                           c2 == IF Votable(c, res.from)
                                 THEN IncreaseVote(c, res.from) ELSE c
                           rest == consensus_tracker[n] \ found
                       IN IF c2.cnt < c2.required
                          THEN /\ consensus_tracker' =
                                     [consensus_tracker EXCEPT ![n] = rest \cup {c2}]
                               /\ event' = NoEvent
                               /\ UNCHANGED <<hwm, client_sessions, commits, tasks>>
                          ELSE /\ consensus_tracker' =
                                     [consensus_tracker EXCEPT ![n] = rest]
                               /\ hwm' = [hwm EXCEPT ![n] =
                                                CommitHwm(@, res.log_idx)]
                               /\ client_sessions' = [client_sessions EXCEPT ![n] =
                                     @ \cup ({c.sess} \ {"none"})]
                               /\ event' = Response(n, c.cb, c.req, c.sess,
                                     [kind |-> "LogIndex", idx |-> res.log_idx])
                               /\ commits' = [commits EXCEPT ![n] =
                                                 Append(@, res.log_idx)]
                               /\ tasks' = tasks \cup CallbackTasks(n, c.cb,
                                     [kind |-> "LogIndex", idx |-> res.log_idx])

----------------------------------------------------------------------------
\* Hash ring and migration planning

\* set_partitions: the ring with the given partitions, None when unchanged
SetPartitions(ring, parts) ==
    IF parts = ring.partitions THEN None
    ELSE Some([partitions |-> parts, last_modified |-> ring.last_modified + 1])

\* update_repl_leader: the partition of rid is led by id
UpdateReplLeader(ring, rid, id) ==
    [ring EXCEPT !.partitions = {pt \in @ : pt[1] # rid} \cup {<<rid, id>>}]

\* shard_leaders
ShardLeaders(n) ==
    {<<members[n][p].replid, p>> : p \in {q \in DOMAIN members[n] :
                                            members[n][q].role = "Leader"}}
    \cup (IF role[n] = "Leader" THEN {<<replid[n], n>>} ELSE {})

\* create_migration_tasks: for each new owner, the keys that leave their
\* current owner for it
MigrationPlan(old_ring, new_ring, keys) ==
    LET moving == {k \in keys :
                      GetNodeForKeys(new_ring, k) # GetNodeForKeys(old_ring, k)}
        targets == {GetNodeForKeys(new_ring, k) : k \in moving}
    IN [t \in targets |-> {k \in moving : GetNodeForKeys(new_ring, k) = t}]

\* block_write_reqs
BlockedRequests(pr) == IF pr = None THEN Some(<<>>) ELSE pr

\* A block_write_reqs that leaves pending_migrations as it is.
BlockedMigrationsKeep(pr, pm) == pm

BlockedMigrations(pr, pm) == IF pr = None THEN Some({}) ELSE pm

\* A staleness test that lets every ring pass.
RingOutdatedNever(new_ring, ring) == FALSE

\* "if new_ring.last_modified < self.hash_ring.last_modified"
RingOutdated(new_ring, ring) == new_ring.last_modified < ring.last_modified

\* maybe_update_hashring as a function of the state of n: the ring it leaves,
\* whether writes get blocked, and the migration batches it schedules.
\* seq numbers the batches (MigrationBatch::new gives each a fresh id).
MaybeUpdateHashring(n, offered, seq) ==
    LET same == [ring |-> hash_ring[n], block |-> FALSE, batches |-> {}]
    IN IF offered = None THEN same
       ELSE LET new_ring == offered[1] IN
       IF new_ring.partitions = hash_ring[n].partitions THEN same
       ELSE IF RingOutdated(new_ring, hash_ring[n]) THEN same
       ELSE IF role[n] # "Leader"
       THEN [ring |-> new_ring, block |-> FALSE, batches |-> {}]
       ELSE LET plan == MigrationPlan(hash_ring[n], new_ring, cache[n])
            IN IF DOMAIN plan = {}
               THEN [ring |-> new_ring, block |-> FALSE, batches |-> {}]
               ELSE [ring |-> hash_ring[n], block |-> TRUE,
                     batches |-> {[id |-> <<t, seq>>, target_repl |-> t,
                                   keys |-> plan[t]] : t \in DOMAIN plan}]

----------------------------------------------------------------------------
\* Elections

\* run_for_election, with become_candidate
RunForElectionCmd(n) ==
    /\ term' = [term EXCEPT ![n] = @ + 1]
    /\ election_state' = [election_state EXCEPT ![n] =
          [kind |-> "Candidate", cnt |-> 1,
           replica_count |-> Cardinality(Replicas(n))]]
    /\ chan' = SendAll(chan, n, [p \in Replicas(n) |->
          <<[type |-> "RequestVote", candidate_id |-> n, term |-> term[n] + 1,
             last_log_index |-> LastLogIndex(log[n]),
             last_log_term |-> LastLogIndex(log[n])]>>])
    /\ event' = NoEvent
    /\ UNCHANGED <<role, hwm, replid, log, members, consensus_tracker,
                   client_sessions, sched, walFails, commits, applied>>
    /\ UNCHANGED <<hash_ring, pending_requests, pending_migrations, cache,
                   meets, batch_seq, tag_seq, drained, restVars>>

\* The election timeout of a scheduler in follower mode, with the command
\* handled at once.
RunForElection(n) ==
    /\ sched[n] = "follower"
    /\ RunForElectionCmd(n)
    /\ UNCHANGED tasks

\* ElectionState.is_votable
IsVotable(es, candidate) ==
    es.kind = "Follower" /\ es.voted_for \subseteq {candidate}

\* become_follower_if_term_higher_and_votable
CanVoteFor(n, candidate, candidate_term) ==
    candidate_term > term[n] /\ IsVotable(election_state[n], candidate)

\* vote_election
\* grant_vote of vote_election
GrantVoteNoLogCheck(n, rv) == CanVoteFor(n, rv.candidate_id, rv.term)

GrantVote(n, rv) ==
    /\ LastLogIndex(log[n]) <= rv.last_log_index
    /\ CanVoteFor(n, rv.candidate_id, rv.term)

\* peer.send(ElectionVote { term, vote_granted: grant_vote })
VoteReplyOnlyGranted(n, rv, term1, grant_vote, ch0) ==
    IF grant_vote
    THEN SendAll(ch0, n, (rv.candidate_id :>
             <<[type |-> "ElectionVote", term |-> term1,
                vote_granted |-> grant_vote]>>))
    ELSE ch0

VoteReply(n, rv, term1, grant_vote, ch0) ==
    SendAll(ch0, n, (rv.candidate_id :>
        <<[type |-> "ElectionVote", term |-> term1,
           vote_granted |-> grant_vote]>>))

VoteElection(n, rv, ch0) ==
    /\ event' = NoEvent
    /\ UNCHANGED <<hwm, replid, log, members, consensus_tracker,
                   client_sessions, sched, walFails, commits, applied>>
    /\ UNCHANGED <<migVars, restVars>>
    /\ IF ~IsReplica(n, rv.candidate_id)
       THEN /\ chan' = ch0
            /\ UNCHANGED <<term, role, election_state>>
       ELSE LET grant_vote == GrantVote(n, rv)
                term1 == IF grant_vote THEN rv.term ELSE term[n]
            IN /\ term' = [term EXCEPT ![n] = term1]
               /\ role' = [role EXCEPT ![n] = IF grant_vote THEN "Follower" ELSE @]
               /\ election_state' = [election_state EXCEPT ![n] =
                     IF grant_vote
                     THEN [kind |-> "Follower", voted_for |-> {rv.candidate_id}]
                     ELSE @]
               /\ chan' = VoteReply(n, rv, term1, grant_vote, ch0)

\* ElectionState.can_transition_to_leader: one more granted vote makes a
\* strict majority of the replica set
VotesAfter(es) == IF es.kind = "Candidate" THEN es.cnt + 1 ELSE 0

CanTransitionToLeader(es) ==
    es.kind = "Candidate" /\ 2 * VotesAfter(es) > es.replica_count + 1

\* receive_election_vote, with become_leader
ReceiveElectionVote(n, election_vote, ch0) ==
    /\ event' = NoEvent
    /\ UNCHANGED <<term, hwm, replid, log, members, consensus_tracker,
                   client_sessions, walFails, commits, applied>>
    /\ UNCHANGED <<pending_requests, pending_migrations, cache, meets, restVars, tasks,
                   batch_seq, tag_seq, drained>>
    /\ IF ~election_vote.vote_granted
       THEN /\ chan' = ch0
            /\ UNCHANGED <<role, election_state, sched, hash_ring>>
       ELSE IF ~CanTransitionToLeader(election_state[n])
       THEN /\ chan' = ch0
            /\ election_state' = [election_state EXCEPT ![n] =
                  IF @.kind = "Candidate" THEN [@ EXCEPT !.cnt = @ + 1] ELSE @]
            /\ UNCHANGED <<role, sched, hash_ring>>
       ELSE LET msg == [DefaultHeartbeat(n) EXCEPT !.term = term[n]]
                ring == UpdateReplLeader(hash_ring[n], replid[n], n)
            IN /\ role' = [role EXCEPT ![n] = "Leader"]
               /\ election_state' = [election_state EXCEPT ![n] = [kind |-> "Leader"]]
               /\ sched' = [sched EXCEPT ![n] = "leader"]
               /\ hash_ring' = [hash_ring EXCEPT ![n] = ring]
               /\ chan' = SendAll(ch0, n, [p \in DOMAIN members[n] |->
                     (IF IsReplica(n, p)
                      THEN <<[type |-> "AppendEntriesRPC", hb |-> msg]>>
                      ELSE <<>>) \o
                     <<[type |-> "ClusterHeartBeat",
                        hb |-> msg @@ [cluster_nodes |-> <<>>,
                                       hashring |-> Some(ring)]]>>])

\* Ban list

\* The age, in seconds, at which apply_banlist drops a ban entry.
BanTtlSecs == 60

\* in_ban_list: whether the ban list has an entry for the peer
InBanList(bl, p) == \E b \in bl : b.p_id = p

\* HashSet::insert of a BannedPeer: an entry of the same peer stays as it is
BanInsert(bl, p, t) ==
    IF InBanList(bl, p) THEN bl ELSE bl \cup {[p_id |-> p, ban_time |-> t]}

\* banlist.remove(peer_id)
BanRemove(bl, p) == {b \in bl : b.p_id # p}

\* the retain predicate of apply_banlist
StillBanned(t, ban_time) == t - ban_time < BanTtlSecs

\* the merge loop of apply_banlist: of two entries of one peer the one with
\* the larger ban_time stays, the existing one on a tie
MergeBanlist(bl, incoming) ==
    {b \in bl : ~\E i \in incoming :
                    i.p_id = b.p_id /\ i.ban_time > b.ban_time}
    \cup {i \in incoming : \A b \in bl :
                    b.p_id = i.p_id => i.ban_time > b.ban_time}

\* apply_banlist: the ban list after the merge and the purge
ApplyBanlist(bl, incoming, t) ==
    {b \in MergeBanlist(bl, incoming) : StillBanned(t, b.ban_time)}

\* remove_peer on every peer of a set
RemovePeersKeep(mem, ps) == mem

RemovePeers(mem, ps) == [p \in DOMAIN mem \ ps |-> mem[p]]

\* The handles of a member map between two handlers: remove_peer kills the
\* peer it takes out, so each member has its one handle, the installed one.
PeerHandles(mem) == {[id |-> p, installed |-> TRUE] : p \in DOMAIN mem}

\* receive_cluster_heartbeat: a heartbeat of a banned sender is dropped;
\* otherwise apply_banlist, update_cluster_members and maybe_update_hashring.
\* The heartbeat's hop count is 0 for the cluster sizes modelled, so gossip
\* forwards nothing. join_peer_network_if_absent only starts a connection;
\* the peer joins when the handshake's AddPeer command arrives.
ReceiveClusterHeartbeat(n, hb, ch0) ==
    IF InBanList(banlist[n], hb.from)
    THEN /\ chan' = ch0
         /\ event' = [type |-> "banned", node |-> n, from |-> hb.from]
         /\ UNCHANGED <<term, role, election_state, hwm, replid, log, members,
                        consensus_tracker, client_sessions, sched, walFails,
                        commits, applied>>
         /\ UNCHANGED <<migVars, restVars>>
    ELSE
    LET r == MaybeUpdateHashring(n, hb.hashring, batch_seq)
        bl == ApplyBanlist(banlist[n], hb.ban_list, now)
        mem == RemovePeers(members[n], {b.p_id : b \in bl})
    IN /\ r.batches # {} => batch_seq < MaxBatchSeq
       /\ chan' = ch0
       /\ event' = NoEvent
       /\ banlist' = [banlist EXCEPT ![n] = bl]
       /\ members' = [members EXCEPT ![n] =
             [p \in DOMAIN mem |->
                 [mem[p] EXCEPT
                     !.match_index = IF p = hb.from THEN hb.hwm ELSE @,
                     !.role = IF p \in DOMAIN hb.cluster_nodes
                              THEN hb.cluster_nodes[p] ELSE @]]]
       /\ hash_ring' = [hash_ring EXCEPT ![n] = r.ring]
       /\ pending_requests' = [pending_requests EXCEPT ![n] =
             IF r.block THEN BlockedRequests(@) ELSE @]
       /\ pending_migrations' = [pending_migrations EXCEPT ![n] =
             IF r.block THEN BlockedMigrations(pending_requests[n], @) ELSE @]
       /\ tasks' = tasks \cup {[type |-> "schedule", node |-> n, batch |-> b] :
                                  b \in r.batches}
       /\ batch_seq' = IF r.batches # {} THEN batch_seq + 1 ELSE batch_seq
       /\ UNCHANGED <<term, role, election_state, hwm, replid, log,
                      consensus_tracker, client_sessions, sched, walFails,
                      commits, applied, cache, meets, tag_seq, drained,
                      now, ban_cmds, truncated, pureVars>>
       /\ handles' = [handles EXCEPT ![n] = PeerHandles(mem)]

----------------------------------------------------------------------------

\* One replication group g1: node 1 leads, nodes 2 and 3 follow; empty logs.
\* The nodes with the given peer ids as their members.
InitPeers(Peers) ==
    /\ term = [n \in Nodes |-> 0]
    /\ role = [n \in Nodes |-> IF n = 1 THEN "Leader" ELSE "Follower"]
    /\ election_state = [n \in Nodes |->
          IF n = 1 THEN [kind |-> "Leader"]
          ELSE [kind |-> "Follower", voted_for |-> {}]]
    /\ hwm = [n \in Nodes |-> 0]
    /\ replid = [n \in Nodes |-> "g1"]
    /\ log = [n \in Nodes |-> <<>>]
    /\ members = [n \in Nodes |-> [p \in Peers \ {n} |->
          [replid |-> "g1",
           role |-> IF p = 1 THEN "Leader" ELSE "Follower",
           match_index |-> 0]]]
    /\ consensus_tracker = [n \in Nodes |-> {}]
    /\ client_sessions = [n \in Nodes |-> {}]
    /\ sched = [n \in Nodes |-> IF n = 1 THEN "leader" ELSE "follower"]
    /\ chan = [pr \in {q \in Nodes \X Nodes : q[1] # q[2]} |-> <<>>]
    /\ event = NoEvent
    /\ commits = [n \in Nodes |-> <<>>]
    /\ applied = [n \in Nodes |-> <<>>]
    /\ hash_ring = [n \in Nodes |->
          [partitions |-> {<<"g1", 1>>}, last_modified |-> 0]]
    /\ pending_requests = [n \in Nodes |-> None]
    /\ pending_migrations = [n \in Nodes |-> None]
    /\ cache = [n \in Nodes |-> {}]
    /\ meets = 0
    /\ tasks = {}
    /\ batch_seq = 0
    /\ tag_seq = 0
    /\ drained = {}
    /\ banlist = [n \in Nodes |-> {}]
    /\ now = 0
    /\ ban_cmds = 0
    /\ truncated = {}
    /\ handles = [n \in Nodes |-> PeerHandles(members[n])]

InitCluster == InitPeers(Nodes)

InitGroup == InitCluster /\ call = None /\ ret = None

Init == InitGroup /\ walFails = 0

----------------------------------------------------------------------------
\* The actor handles the next message of peer p's inbound stream.

Rest(p, n) == [chan EXCEPT ![<<p, n>>] = Tail(@)]

DeliverAppendEntries(p, n) ==
    /\ chan[<<p, n>>] # <<>>
    /\ Head(chan[<<p, n>>]).type = "AppendEntriesRPC"
    /\ AppendEntriesRPC(n, Head(chan[<<p, n>>]).hb, Rest(p, n))
    /\ ChanOK(chan')
    /\ truncated' = IF TruncatesOnMismatch(n, Head(chan[<<p, n>>]).hb)
                     THEN truncated \cup {<<n, p>>} ELSE truncated
    /\ UNCHANGED <<replid, members, consensus_tracker, sched, commits>>
    /\ UNCHANGED <<migVars, banVars, handles, pureVars>>

DeliverReplicationAck(p, n) ==
    /\ chan[<<p, n>>] # <<>>
    /\ Head(chan[<<p, n>>]).type = "ReplicationAck"
    /\ AckReplication(n, Head(chan[<<p, n>>]), Rest(p, n))

DeliverRequestVote(p, n) ==
    /\ chan[<<p, n>>] # <<>>
    /\ Head(chan[<<p, n>>]).type = "RequestVote"
    /\ VoteElection(n, Head(chan[<<p, n>>]), Rest(p, n))
    /\ ChanOK(chan')

DeliverElectionVote(p, n) ==
    /\ chan[<<p, n>>] # <<>>
    /\ Head(chan[<<p, n>>]).type = "ElectionVote"
    /\ ReceiveElectionVote(n, Head(chan[<<p, n>>]), Rest(p, n))
    /\ ChanOK(chan')

DeliverClusterHeartBeat(p, n) ==
    /\ chan[<<p, n>>] # <<>>
    /\ Head(chan[<<p, n>>]).type = "ClusterHeartBeat"
    /\ ReceiveClusterHeartbeat(n, Head(chan[<<p, n>>]).hb, Rest(p, n))

ClientWrite(n, w) ==
    /\ LeaderReqConsensus(n, w)
    /\ UNCHANGED tasks
    /\ LastLogIndex(log'[n]) <= MaxLog
    /\ ChanOK(chan')

\* The scheduler's periodic SendAppendEntriesRPC tick. The heartbeat interval
\* is long against message latency: the tick finds the node's peer queues
\* drained.
Heartbeat(n) ==
    /\ \A p \in Nodes \ {n} : chan[<<n, p>>] = <<>> /\ chan[<<p, n>>] = <<>>
    /\ SendRpc(n)
    /\ ChanOK(chan')

\* replicaof: logger.reset(), hwm <- 0, replid <- Undecided, step_down. The
\* outbound connection it then starts is peer connection establishment.
ReplicaOf(n) ==
    /\ \A m \in Nodes : replid[m] # "Undecided"
    /\ log' = [log EXCEPT ![n] = <<>>]
    /\ hwm' = [hwm EXCEPT ![n] = 0]
    /\ replid' = [replid EXCEPT ![n] = "Undecided"]
    /\ election_state' = [election_state EXCEPT ![n] = StepDownState]
    /\ role' = [role EXCEPT ![n] = "Follower"]
    /\ sched' = [sched EXCEPT ![n] = "follower"]
    /\ event' = [type |-> "replicaof", node |-> n]
    /\ UNCHANGED <<term, members, consensus_tracker, client_sessions, chan,
                   walFails, commits, applied>>
    /\ UNCHANGED <<migVars, restVars>>

\* One replication group with a stable leader: client writes, periodic
\* append-entries, follower replication, acks, WAL failures and REPLICAOF.
Next ==
    \/ \E n \in Nodes, w \in ClientWrites : ClientWrite(n, w)
    \/ \E n \in Nodes : Heartbeat(n)
    \/ \E n \in Nodes : ReplicaOf(n)
    \/ \E p \in Nodes : \E n \in Nodes \ {p} : DeliverAppendEntries(p, n)
    \/ \E p \in Nodes : \E n \in Nodes \ {p} : DeliverReplicationAck(p, n)

Spec == Init /\ [][Next]_vars

\* The same group with election timeouts: RunForElection, RequestVote and
\* ElectionVote next to replication.
ElectionWrite(n, w) ==
    /\ LeaderReqConsensus(n, w)
    /\ UNCHANGED tasks
    /\ walFails' = walFails
    /\ LastLogIndex(log'[n]) <= MaxElectionLog
    /\ ChanOK(chan')

Election(n) ==
    /\ term[n] < MaxTerm
    /\ RunForElection(n)
    /\ ChanOK(chan')

NextElection ==
    \/ \E n \in Nodes, w \in ClientWrites : ElectionWrite(n, w)
    \/ \E n \in Nodes : Election(n)
    \/ \E p \in Nodes : \E n \in Nodes \ {p} : DeliverAppendEntries(p, n)
    \/ \E p \in Nodes : \E n \in Nodes \ {p} : DeliverReplicationAck(p, n)
    \/ \E p \in Nodes : \E n \in Nodes \ {p} : DeliverRequestVote(p, n)
    \/ \E p \in Nodes : \E n \in Nodes \ {p} : DeliverElectionVote(p, n)
    \/ \E p \in Nodes : \E n \in Nodes \ {p} : DeliverClusterHeartBeat(p, n)

InitElection == InitGroup /\ walFails = MaxWalFail

SpecElection == InitElection /\ [][NextElection]_vars

\* The group without client writes, with repeated election timeouts: a
\* candidate that collects no majority before its next timeout runs again.
ElectionAgain(n) ==
    /\ term[n] < MaxVoteTerm
    /\ RunForElection(n)
    /\ ChanOK(chan')

NextVote ==
    \/ \E n \in Nodes : ElectionAgain(n)
    \/ \E p \in Nodes : \E n \in Nodes \ {p} : DeliverAppendEntries(p, n)
    \/ \E p \in Nodes : \E n \in Nodes \ {p} : DeliverReplicationAck(p, n)
    \/ \E p \in Nodes : \E n \in Nodes \ {p} : DeliverRequestVote(p, n)
    \/ \E p \in Nodes : \E n \in Nodes \ {p} : DeliverElectionVote(p, n)
    \/ \E p \in Nodes : \E n \in Nodes \ {p} : DeliverClusterHeartBeat(p, n)

SpecVote == InitElection /\ [][NextVote]_vars

\* The election timeout fires and the actor handles the RunForElection
\* command later, after the commands that were queued before it.
ElectionCommand(n) == [type |-> "election", node |-> n]

ElectionTimeout(n) ==
    /\ sched[n] = "follower"
    /\ ElectionCommand(n) \notin tasks
    /\ tasks' = tasks \cup {ElectionCommand(n)}
    /\ event' = NoEvent
    /\ UNCHANGED <<term, role, election_state, hwm, replid, log, members,
                   consensus_tracker, client_sessions, sched, chan, walFails,
                   commits, applied>>
    /\ UNCHANGED <<hash_ring, pending_requests, pending_migrations, cache,
                   meets, batch_seq, tag_seq, drained, restVars>>

HandleRunForElection(n) ==
    /\ ElectionCommand(n) \in tasks
    /\ term[n] < MaxVoteTerm
    /\ RunForElectionCmd(n)
    /\ tasks' = tasks \ {ElectionCommand(n)}
    /\ ChanOK(chan')

NextTimer ==
    \/ \E n \in Nodes : ElectionTimeout(n)
    \/ \E n \in Nodes : HandleRunForElection(n)
    \/ \E p \in Nodes : \E n \in Nodes \ {p} : DeliverAppendEntries(p, n)
    \/ \E p \in Nodes : \E n \in Nodes \ {p} : DeliverReplicationAck(p, n)
    \/ \E p \in Nodes : \E n \in Nodes \ {p} : DeliverRequestVote(p, n)
    \/ \E p \in Nodes : \E n \in Nodes \ {p} : DeliverElectionVote(p, n)
    \/ \E p \in Nodes : \E n \in Nodes \ {p} : DeliverClusterHeartBeat(p, n)

SpecTimer == InitElection /\ [][NextTimer]_vars

----------------------------------------------------------------------------
\* Reconfiguration: three shard leaders without replicas, joined by lazy
\* CLUSTER MEET; node 1 holds keys x and z (restored from its dump file).
\* In the ring of the three, x belongs to g2, z to g3 and y to g1.

Gid == (1 :> "g1") @@ (2 :> "g2") @@ (3 :> "g3")

MsetRequest == [req |-> "mset", sess |-> "none", tag |-> 0]

DeleteRequest == [req |-> "delete", sess |-> "none", tag |-> 0]

\* rebalance_request; max_meets bounds the eager requests of a behaviour
RebalanceRequestUpTo(n, request_to, lazy_option, max_meets) ==
    /\ event' = NoEvent
    /\ IF lazy_option = "Eager" /\ request_to \in DOMAIN members[n]
          /\ ~IsReplica(n, request_to)
       THEN /\ meets < max_meets
            /\ meets' = meets + 1
            /\ pending_requests' = [pending_requests EXCEPT
                                       ![n] = BlockedRequests(@)]
            /\ pending_migrations' = [pending_migrations EXCEPT
                  ![n] = BlockedMigrations(pending_requests[n], @)]
            /\ chan' = SendAll(chan, n,
                               (request_to :> <<[type |-> "StartRebalance"]>>))
       ELSE UNCHANGED <<pending_requests, pending_migrations, chan, meets>>
    /\ UNCHANGED <<term, role, election_state, hwm, replid, log, members,
                   consensus_tracker, client_sessions, sched, walFails,
                   commits, applied>>
    /\ UNCHANGED <<hash_ring, cache, tasks, batch_seq, tag_seq, drained, restVars>>

RebalanceRequest(n, request_to, lazy_option) ==
    RebalanceRequestUpTo(n, request_to, lazy_option, MaxMeet)

\* start_rebalance
StartRebalance(n, ch0) ==
    LET offered == IF role[n] = "Leader"
                   THEN SetPartitions(hash_ring[n], ShardLeaders(n)) ELSE None
        r == MaybeUpdateHashring(n, offered, batch_seq)
        hb == DefaultHeartbeat(n) @@ [cluster_nodes |-> <<>>, hashring |-> offered]
    IN /\ event' = NoEvent
       /\ UNCHANGED <<term, role, election_state, hwm, replid, log, members,
                      consensus_tracker, client_sessions, sched, walFails,
                      commits, applied>>
       /\ UNCHANGED <<cache, meets, restVars, tag_seq, drained>>
       /\ IF offered = None
          THEN /\ chan' = ch0
               /\ UNCHANGED <<hash_ring, pending_requests, pending_migrations,
                              tasks, batch_seq>>
          ELSE /\ r.batches # {} => batch_seq < MaxBatchSeq
               /\ pending_requests' = [pending_requests EXCEPT
                                          ![n] = BlockedRequests(@)]
               /\ pending_migrations' = [pending_migrations EXCEPT
                     ![n] = BlockedMigrations(pending_requests[n], @)]
               /\ chan' = SendAll(ch0, n, [p \in DOMAIN members[n] |->
                     <<[type |-> "ClusterHeartBeat", hb |-> hb]>>])
               /\ hash_ring' = [hash_ring EXCEPT ![n] = r.ring]
               /\ tasks' = tasks \cup
                     {[type |-> "schedule", node |-> n, batch |-> b] :
                          b \in r.batches}
               /\ batch_seq' = IF r.batches # {} THEN batch_seq + 1
                               ELSE batch_seq

\* peerid_by_replid: the first member, in key order, of the replication group
PeeridByReplid(n, target_repl_id) ==
    LET found == {p \in DOMAIN members[n] :
                     members[n][p].replid = target_repl_id}
    IN IF found = {} THEN None ELSE Some(SetMin(found))

\* migrate_batch, on the ScheduleMigrationBatch command of task t
MigrateBatch(t) ==
    LET n == t.node
        target == t.batch
        peer_id == PeeridByReplid(n, target.target_repl)
    IN /\ t.type = "schedule"
       /\ tasks' = tasks \ {t}
       /\ event' = NoEvent
       /\ UNCHANGED <<term, role, election_state, hwm, replid, log, members,
                      consensus_tracker, client_sessions, sched, walFails,
                      commits, applied>>
       /\ UNCHANGED <<hash_ring, pending_requests, cache, meets, restVars, batch_seq,
                      tag_seq, drained>>
       /\ IF peer_id = None
          THEN UNCHANGED <<pending_migrations, chan>>
          ELSE /\ pending_migrations' = [pending_migrations EXCEPT ![n] =
                     IF @ = None THEN None
                     ELSE Some({b \in @[1] : b.id # target.id} \cup
                               {[id |-> target.id, keys |-> target.keys]})]
               /\ chan' = SendAll(chan, n, (peer_id[1] :>
                     <<[type |-> "MigrateBatch", batch_id |-> target.id,
                        cache_entries |-> target.keys \cap cache[n]]>>))

BatchAck(batch_id) ==
    [type |-> "MigrationBatchAck", batch_id |-> batch_id, success |-> TRUE]

\* The part of the actor state that req_consensus changes, for a request made
\* by the actor itself with callback cb.
InternalConsensusWal(n, w, cb, ch0, walOk) ==
    LET r == ReqConsensus(n, w, cb, walOk)
    IN /\ log' = [log EXCEPT ![n] = r.log]
       /\ hwm' = [hwm EXCEPT ![n] = r.hwm]
       /\ consensus_tracker' = [consensus_tracker EXCEPT ![n] = r.tracker]
       /\ chan' = SendAll(ch0, n, r.outs)
       /\ event' = IF r.resp.kind = "none" THEN NoEvent
                   ELSE Response(n, cb, w.req, w.sess, r.resp)
       /\ commits' = IF r.resp.kind = "LogIndex"
                     THEN [commits EXCEPT ![n] = Append(@, r.resp.idx)]
                     ELSE commits
       /\ tasks' = tasks \cup CallbackTasks(n, cb, r.resp)

\* The same when the write-ahead log accepts the entry.
InternalConsensus(n, w, cb, ch0) == InternalConsensusWal(n, w, cb, ch0, TRUE)

\* receive_batch; walOk tells whether write_single_entry succeeds
ReceiveBatchWal(n, migrate_batch, from, ch0, walOk) ==
    /\ UNCHANGED <<term, role, election_state, replid, members,
                   client_sessions, sched, applied>>
    /\ walFails' = IF walOk \/ role[n] # "Leader"
                        \/ migrate_batch.cache_entries = {}
                     THEN walFails ELSE walFails + 1
    /\ UNCHANGED <<hash_ring, pending_requests, pending_migrations, cache,
                   meets, restVars, batch_seq, tag_seq, drained>>
    /\ IF migrate_batch.cache_entries = {}
       THEN /\ chan' = SendAll(ch0, n,
                               (from :> <<BatchAck(migrate_batch.batch_id)>>))
            /\ event' = NoEvent
            /\ UNCHANGED <<hwm, log, consensus_tracker, commits, tasks>>
       ELSE InternalConsensusWal(n, MsetRequest,
               [kind |-> "mset",
                batch |-> [id |-> migrate_batch.batch_id,
                           keys |-> migrate_batch.cache_entries,
                           from |-> from]], ch0, walOk)

ReceiveBatch(n, migrate_batch, from, ch0) ==
    ReceiveBatchWal(n, migrate_batch, from, ch0, TRUE)

\* A route_mset that stores nothing.
RouteMsetNothing(c, keys) == c

\* cache_manager.route_mset: the cache holds the entries
RouteMset(c, keys) == c \cup keys

\* cache_manager.route_delete: the cache holds the keys no more
RouteDelete(c, keys) == c \ keys

\* The task spawned by receive_batch, once its callback has a response:
\* route_mset, then the SendBatchAck command and send_batch_ack.
SendBatchAck(t) ==
    LET n == t.node
    IN /\ t.type = "mset"
       /\ tasks' = tasks \ {t}
       /\ cache' = [cache EXCEPT ![n] = RouteMset(@, t.batch.keys)]
       /\ chan' = SendAll(chan, n, (t.batch.from :> <<BatchAck(t.batch.id)>>))
       /\ event' = NoEvent
       /\ UNCHANGED <<term, role, election_state, hwm, replid, log, members,
                      consensus_tracker, client_sessions, sched, walFails,
                      commits, applied>>
       /\ UNCHANGED <<hash_ring, pending_requests, pending_migrations, meets, restVars,
                      batch_seq, tag_seq, drained>>

\* handle_migration_ack; walOk tells whether write_single_entry succeeds
HandleMigrationAckWal(n, ack, ch0, walOk) ==
    LET pending == pending_migrations[n]
        found == IF pending = None THEN {}
                 ELSE {b \in pending[1] : b.id = ack.batch_id}
    IN /\ UNCHANGED <<term, role, election_state, replid, members,
                      client_sessions, sched, applied>>
       /\ walFails' = IF walOk \/ role[n] # "Leader" \/ found = {}
                           \/ ~ack.success
                        THEN walFails ELSE walFails + 1
       /\ UNCHANGED <<hash_ring, pending_requests, cache, meets, restVars, batch_seq,
                      tag_seq, drained>>
       /\ IF found = {}
          THEN /\ chan' = ch0
               /\ event' = NoEvent
               /\ UNCHANGED <<hwm, log, consensus_tracker, commits, tasks,
                              pending_migrations>>
          ELSE /\ pending_migrations' = [pending_migrations EXCEPT
                                            ![n] = Some(@[1] \ found)]
               /\ IF ~ack.success
                  THEN /\ chan' = ch0
                       /\ event' = NoEvent
                       /\ UNCHANGED <<hwm, log, consensus_tracker, commits, tasks>>
                  ELSE InternalConsensusWal(n, DeleteRequest,
                          [kind |-> "delete",
                           batch |-> CHOOSE b \in found : TRUE], ch0, walOk)

HandleMigrationAck(n, ack, ch0) == HandleMigrationAckWal(n, ack, ch0, TRUE)

\* An unblock that does not look at the pending batches.
MigrationsDoneAlways(pm) == TRUE

\* "self.pending_migrations.as_ref().is_none_or(|p| p.is_empty())"
MigrationsDone(pm) == pm = None \/ pm[1] = {}

\* unblock_write_reqs_if_done as a function of the state of n: the ring and
\* the pending state it leaves, and the requests its spawned task re-submits.
UnblockWriteReqsIfDone(n) ==
    LET new_ring == SetPartitions(hash_ring[n], ShardLeaders(n))
        ring == IF new_ring = None THEN hash_ring[n] ELSE new_ring[1]
    IN IF ~MigrationsDone(pending_migrations[n])
       THEN [ring |-> hash_ring[n], requests |-> pending_requests[n],
             migrations |-> pending_migrations[n], drain |-> <<>>]
       ELSE IF pending_requests[n] = None
       THEN [ring |-> ring, requests |-> None,
             migrations |-> pending_migrations[n], drain |-> <<>>]
       ELSE [ring |-> ring, requests |-> None, migrations |-> None,
             drain |-> pending_requests[n][1]]

\* The task spawned by handle_migration_ack, once its callback has a
\* response: route_delete, then the TryUnblockWriteReqs command and
\* unblock_write_reqs_if_done.
TryUnblockWriteReqs(t) ==
    LET n == t.node
        u == UnblockWriteReqsIfDone(n)
    IN /\ t.type = "delete"
       /\ cache' = [cache EXCEPT ![n] = RouteDelete(@, t.batch.keys)]
       /\ hash_ring' = [hash_ring EXCEPT ![n] = u.ring]
       /\ pending_requests' = [pending_requests EXCEPT ![n] = u.requests]
       /\ pending_migrations' = [pending_migrations EXCEPT ![n] = u.migrations]
       /\ tasks' = (tasks \ {t}) \cup
             (IF u.drain = <<>> THEN {}
              ELSE {[type |-> "drain", node |-> n, reqs |-> u.drain]})
       /\ event' = [type |-> "unblock", node |-> n, drain |-> u.drain,
                    batch |-> t.batch]
       /\ UNCHANGED <<term, role, election_state, hwm, replid, log, members,
                      consensus_tracker, client_sessions, sched, chan, walFails,
                      commits, applied>>
       /\ drained' = IF u.drain = <<>> THEN drained
                     ELSE drained \cup {[i \in 1..Len(u.drain) |-> u.drain[i].tag]}
       /\ UNCHANGED <<meets, restVars, batch_seq, tag_seq>>

\* The task spawned by unblock_write_reqs_if_done: "while let Some(req) =
\* pending_reqs.pop_front()" sends LeaderReqConsensus(req) to the actor.
DrainPending(t) ==
    /\ t.type = "drain"
    /\ LeaderReqConsensus(t.node, Head(t.reqs))
    /\ tasks' = (tasks \ {t}) \cup
          (IF Tail(t.reqs) = <<>> THEN {} ELSE {[t EXCEPT !.reqs = Tail(@)]})

DeliverStartRebalance(p, n) ==
    /\ chan[<<p, n>>] # <<>>
    /\ Head(chan[<<p, n>>]).type = "StartRebalance"
    /\ StartRebalance(n, Rest(p, n))
    /\ ChanOK(chan')

DeliverMigrateBatch(p, n) ==
    /\ chan[<<p, n>>] # <<>>
    /\ Head(chan[<<p, n>>]).type = "MigrateBatch"
    /\ ReceiveBatch(n, Head(chan[<<p, n>>]), p, Rest(p, n))
    /\ ChanOK(chan')

DeliverMigrationBatchAck(p, n) ==
    /\ chan[<<p, n>>] # <<>>
    /\ Head(chan[<<p, n>>]).type = "MigrationBatchAck"
    /\ HandleMigrationAck(n, Head(chan[<<p, n>>]), Rest(p, n))

MigWrite(n, w) ==
    /\ LastLogIndex(log[n]) < MaxMigLog
    /\ IsBlocked(pending_requests[n]) => tag_seq < MaxTag
    /\ LeaderReqConsensus(n, w)
    /\ UNCHANGED tasks

\* What the actors, the peer streams and the spawned tasks do on their own.
MigSystem ==
    \/ \E p \in Nodes : \E n \in Nodes \ {p} : DeliverStartRebalance(p, n)
    \/ \E p \in Nodes : \E n \in Nodes \ {p} : DeliverClusterHeartBeat(p, n)
    \/ \E p \in Nodes : \E n \in Nodes \ {p} : DeliverMigrateBatch(p, n)
    \/ \E p \in Nodes : \E n \in Nodes \ {p} : DeliverMigrationBatchAck(p, n)
    \/ \E t \in tasks : MigrateBatch(t)
    \/ \E t \in tasks : SendBatchAck(t)
    \/ \E t \in tasks : TryUnblockWriteReqs(t)
    \/ \E t \in tasks : DrainPending(t)

\* The keys that node 1 holds at the start.
InitialKeys == {"x", "z"}

\* The nodes that clients are connected to.
ClientNodes == {1}

\* The writes they send: a second session writes y as well.
MigWrites == ClientWrites \cup {[req |-> "y", sess |-> "s3", tag |-> 0]}

\* What clients ask for: writes and eager or lazy CLUSTER MEET.
MigClient ==
    \/ \E n \in ClientNodes, w \in MigWrites : MigWrite(n, w)
    \/ \E n \in ClientNodes : \E request_to \in Nodes \ {n} :
          \E lazy_option \in {"Eager", "Lazy"} :
             RebalanceRequest(n, request_to, lazy_option)

NextMig == MigSystem \/ MigClient

InitShards ==
    /\ term = [n \in Nodes |-> 0]
    /\ role = [n \in Nodes |-> "Leader"]
    /\ election_state = [n \in Nodes |-> [kind |-> "Leader"]]
    /\ hwm = [n \in Nodes |-> 0]
    /\ replid = [n \in Nodes |-> Gid[n]]
    /\ log = [n \in Nodes |-> <<>>]
    /\ members = [n \in Nodes |-> [p \in Nodes \ {n} |->
          [replid |-> Gid[p], role |-> "Leader", match_index |-> 0]]]
    /\ consensus_tracker = [n \in Nodes |-> {}]
    /\ client_sessions = [n \in Nodes |-> {}]
    /\ sched = [n \in Nodes |-> "leader"]
    /\ chan = [pr \in {q \in Nodes \X Nodes : q[1] # q[2]} |-> <<>>]
    /\ event = NoEvent
    /\ commits = [n \in Nodes |-> <<>>]
    /\ applied = [n \in Nodes |-> <<>>]
    /\ hash_ring = [n \in Nodes |->
          [partitions |-> {<<Gid[n], n>>}, last_modified |-> 0]]
    /\ pending_requests = [n \in Nodes |-> None]
    /\ pending_migrations = [n \in Nodes |-> None]
    /\ cache = [n \in Nodes |-> IF n = 1 THEN InitialKeys ELSE {}]
    /\ meets = 0
    /\ tasks = {}
    /\ batch_seq = 0
    /\ tag_seq = 0
    /\ drained = {}
    /\ banlist = [n \in Nodes |-> {}]
    /\ now = 0
    /\ ban_cmds = 0
    /\ truncated = {}
    /\ handles = [n \in Nodes |-> PeerHandles(members[n])]
    /\ call = None
    /\ ret = None

InitMig == InitShards /\ walFails = MaxWalFail

SpecMig == InitMig /\ [][NextMig]_vars

\* The same with one client session, and with every enabled step of the
\* actors, streams and tasks eventually taken.
FairWrites == {w \in MigWrites : w.sess = "s2"}

FairClient ==
    \/ \E n \in ClientNodes, w \in FairWrites : MigWrite(n, w)
    \/ \E n \in ClientNodes : \E request_to \in Nodes \ {n} :
          \E lazy_option \in {"Eager", "Lazy"} :
             RebalanceRequest(n, request_to, lazy_option)

NextFairMig == MigSystem \/ FairClient

FairSpecMig == InitMig /\ [][NextFairMig]_vars /\ WF_vars(MigSystem)

\* The same steps without the fairness condition.
SpecUnblock == InitMig /\ [][NextFairMig]_vars

\* The reconfiguration with a client that writes x, the key that moves from
\* g1 to g2.
RouteWrites == {w \in MigWrites : w.req = "x"}

RouteWrite(n, w) == MigWrite(n, w)

RouteClient ==
    \/ \E n \in ClientNodes, w \in RouteWrites : RouteWrite(n, w)
    \/ \E n \in ClientNodes : \E request_to \in Nodes \ {n} :
          \E lazy_option \in {"Eager", "Lazy"} :
             RebalanceRequest(n, request_to, lazy_option)

NextRoute == MigSystem \/ RouteClient

SpecRoute == InitMig /\ [][NextRoute]_vars

\* The three shard leaders with a write-ahead log that may fail: node 1 is
\* asked for eager CLUSTER MEETs and no client writes.
BatchMeet(request_to) == RebalanceRequest(1, request_to, "Eager")

DeliverMigrateBatchWal(p, n) ==
    /\ chan[<<p, n>>] # <<>>
    /\ Head(chan[<<p, n>>]).type = "MigrateBatch"
    /\ \E walOk \in WalChoices :
          ReceiveBatchWal(n, Head(chan[<<p, n>>]), p, Rest(p, n), walOk)
    /\ ChanOK(chan')

DeliverMigrationBatchAckWal(p, n) ==
    /\ chan[<<p, n>>] # <<>>
    /\ Head(chan[<<p, n>>]).type = "MigrationBatchAck"
    /\ \E walOk \in WalChoices :
          HandleMigrationAckWal(n, Head(chan[<<p, n>>]), Rest(p, n), walOk)

NextBatch ==
    \/ \E request_to \in Nodes \ {1} : BatchMeet(request_to)
    \/ \E p \in Nodes : \E n \in Nodes \ {p} : DeliverStartRebalance(p, n)
    \/ \E p \in Nodes : \E n \in Nodes \ {p} : DeliverClusterHeartBeat(p, n)
    \/ \E p \in Nodes : \E n \in Nodes \ {p} : DeliverMigrateBatchWal(p, n)
    \/ \E p \in Nodes : \E n \in Nodes \ {p} : DeliverMigrationBatchAckWal(p, n)
    \/ \E t \in tasks : MigrateBatch(t)
    \/ \E t \in tasks : SendBatchAck(t)
    \/ \E t \in tasks : TryUnblockWriteReqs(t)

InitBatch == InitShards /\ walFails = 0

SpecBatch == InitBatch /\ [][NextBatch]_vars

----------------------------------------------------------------------------
\* Re-delivery: the stream of peer p hands the actor a MigrateBatch or a
\* MigrationBatchAck and keeps it, so that the same message is delivered again.

RedeliverMigrateBatch(p, n) ==
    /\ chan[<<p, n>>] # <<>>
    /\ Head(chan[<<p, n>>]).type = "MigrateBatch"
    /\ LastLogIndex(log[n]) < MaxRedeliverLog
    /\ ReceiveBatch(n, Head(chan[<<p, n>>]), p, chan)
    /\ ChanOK(chan')

RedeliverMigrationBatchAck(p, n) ==
    /\ chan[<<p, n>>] # <<>>
    /\ Head(chan[<<p, n>>]).type = "MigrationBatchAck"
    /\ LastLogIndex(log[n]) < MaxRedeliverLog
    /\ HandleMigrationAck(n, Head(chan[<<p, n>>]), chan)

\* A reconfiguration by eager CLUSTER MEET without client writes, with
\* re-delivery.
NextRedeliver ==
    \/ \E n \in ClientNodes : \E request_to \in Nodes \ {n} :
          RebalanceRequest(n, request_to, "Eager")
    \/ \E p \in Nodes : \E n \in Nodes \ {p} : DeliverStartRebalance(p, n)
    \/ \E p \in Nodes : \E n \in Nodes \ {p} : DeliverClusterHeartBeat(p, n)
    \/ \E p \in Nodes : \E n \in Nodes \ {p} : DeliverMigrateBatch(p, n)
    \/ \E p \in Nodes : \E n \in Nodes \ {p} : DeliverMigrationBatchAck(p, n)
    \/ \E t \in tasks : MigrateBatch(t)
    \/ \E t \in tasks : SendBatchAck(t)
    \/ \E t \in tasks : TryUnblockWriteReqs(t)
    \/ \E p \in Nodes : \E n \in Nodes \ {p} : RedeliverMigrateBatch(p, n)
    \/ \E p \in Nodes : \E n \in Nodes \ {p} : RedeliverMigrationBatchAck(p, n)

SpecRedeliver == InitMig /\ [][NextRedeliver]_vars

----------------------------------------------------------------------------------------------------------------------------------------
\* Ban list commands

\* forget_peer
ForgetPeer(n, p) ==
    /\ ban_cmds < MaxBanCmds
    /\ ban_cmds' = ban_cmds + 1
    /\ members' = [members EXCEPT ![n] = RemovePeers(@, {p})]
    /\ banlist' = [banlist EXCEPT ![n] = BanInsert(@, p, now)]
    /\ event' = NoEvent
    /\ UNCHANGED <<term, role, election_state, hwm, replid, log,
                   consensus_tracker, client_sessions, sched, chan, walFails,
                   commits, applied, now, truncated, pureVars>>
    /\ handles' = [handles EXCEPT ![n] = PeerHandles(members'[n])]
    /\ UNCHANGED migVars

\* add_peer, the command that ends a handshake with peer p: p leaves the ban
\* list and enters members; a leader greets a follower of its group with a
\* heartbeat that carries its hash ring.
AddPeer(n, p) ==
    LET peer == [replid |-> replid[p], role |-> role[p], match_index |-> 0]
        hb == DefaultHeartbeat(n) @@ [cluster_nodes |-> <<>>,
                                      hashring |-> Some(hash_ring[n])]
        greet == peer.replid = replid[n] /\ peer.role = "Follower"
                 /\ role[n] = "Leader"
    IN /\ ban_cmds < MaxBanCmds
       /\ ban_cmds' = ban_cmds + 1
       /\ banlist' = [banlist EXCEPT ![n] = BanRemove(@, p)]
       /\ members' = [members EXCEPT ![n] =
             [q \in DOMAIN @ \cup {p} |-> IF q = p THEN peer ELSE @[q]]]
       /\ chan' = [chan EXCEPT ![<<n, p>>] =
             IF greet THEN Append(@, [type |-> "ClusterHeartBeat", hb |-> hb])
             ELSE @]
       /\ ChanOK(chan')
       /\ event' = NoEvent
       /\ UNCHANGED <<term, role, election_state, hwm, replid, log,
                      consensus_tracker, client_sessions, sched, walFails,
                      commits, applied, now, truncated, pureVars>>
       /\ handles' = [handles EXCEPT ![n] = PeerHandles(members'[n])]
       /\ UNCHANGED migVars

\* send_cluster_heartbeat: remove_idle_peers drops the members not heard of
\* within node_timeout (idle, chosen by the environment), then every member
\* left gets a heartbeat with the cluster nodes and the ban list.
SendClusterHeartbeat(n, idle) ==
    LET mem == RemovePeers(members[n], idle)
        nodes == [q \in DOMAIN mem \cup {n} |->
                     IF q = n THEN role[n] ELSE mem[q].role]
        hb == DefaultHeartbeat(n) @@ [cluster_nodes |-> nodes,
                                      hashring |-> None]
    IN /\ idle # {} => ban_cmds < MaxBanCmds
       /\ ban_cmds' = IF idle # {} THEN ban_cmds + 1 ELSE ban_cmds
       /\ members' = [members EXCEPT ![n] = mem]
       /\ chan' = [pr \in DOMAIN chan |->
             IF pr[1] = n /\ pr[2] \in DOMAIN mem
             THEN Append(chan[pr], [type |-> "ClusterHeartBeat", hb |-> hb])
             ELSE chan[pr]]
       /\ ChanOK(chan')
       /\ event' = NoEvent
       /\ UNCHANGED <<term, role, election_state, hwm, replid, log,
                      consensus_tracker, client_sessions, sched, walFails,
                      commits, applied, banlist, now, truncated, pureVars>>
       /\ handles' = [handles EXCEPT ![n] = PeerHandles(mem)]
       /\ UNCHANGED migVars

\* The wall clock advances.
Tick ==
    /\ now + TickSecs <= MaxNow
    /\ now' = now + TickSecs
    /\ UNCHANGED <<replVars, migVars, banlist, ban_cmds, truncated, handles, pureVars>>

RECURSIVE SumLen(_, _)
SumLen(ch, prs) ==
    IF prs = {} THEN 0
    ELSE LET pr == CHOOSE x \in prs : TRUE
         IN Len(ch[pr]) + SumLen(ch, prs \ {pr})

\* Few heartbeats are in flight at a time.
BanChanOK(ch) == SumLen(ch, DOMAIN ch) <= MaxBanInFlight

BanAddPeer(n, p) == AddPeer(n, p) /\ BanChanOK(chan')


\* At most one member is idle at a heartbeat tick.
IdleChoices(n) == {{}} \cup {{p} : p \in DOMAIN members[n]}

BanHeartbeat(n) ==
    \E idle \in IdleChoices(n) :
        SendClusterHeartbeat(n, idle) /\ BanChanOK(chan')

\* One replication group whose members are forgotten and re-added while
\* cluster heartbeats spread the ban lists and the clock advances.
NextBan ==
    \/ \E n \in Nodes : \E p \in Nodes \ {n} : ForgetPeer(n, p)
    \/ \E n \in Nodes : \E p \in Nodes \ {n} : BanAddPeer(n, p)
    \/ \E n \in Nodes : BanHeartbeat(n)
    \/ \E p \in Nodes : \E n \in Nodes \ {p} : DeliverClusterHeartBeat(p, n)
    \/ Tick

SpecBan == Init /\ [][NextBan]_vars

\* add_peer for a peer id that is already a member, taken at its await
\* points.  Up to existing_peer.kill().await: the ban is lifted and
\* members.insert puts the new peer in place and hands back the peer it
\* replaced, which has not been killed yet.
AddPeerInsert(n, p) ==
    LET peer == [replid |-> replid[p], role |-> role[p], match_index |-> 0]
    IN /\ p \in DOMAIN members[n]
       /\ ban_cmds < MaxBanCmds
       /\ ban_cmds' = ban_cmds + 1
       /\ banlist' = [banlist EXCEPT ![n] = BanRemove(@, p)]
       /\ members' = [members EXCEPT ![n] = [@ EXCEPT ![p] = peer]]
       /\ handles' = [handles EXCEPT ![n] =
             {[h EXCEPT !.installed = (h.id # p)] : h \in @}
                 \cup {[id |-> p, installed |-> TRUE]}]
       /\ event' = NoEvent
       /\ UNCHANGED <<term, role, election_state, hwm, replid, log,
                      consensus_tracker, client_sessions, sched, chan,
                      walFails, commits, applied, now, truncated, pureVars>>
       /\ UNCHANGED migVars

\* The rest of add_peer: the replaced peer's kill completes, the topology
\* is broadcast and a follower of the leader's group is greeted with a
\* heartbeat carrying the hash ring.
AddPeerKill(n, p) ==
    LET peer == members[n][p]
        hb == DefaultHeartbeat(n) @@ [cluster_nodes |-> <<>>,
                                      hashring |-> Some(hash_ring[n])]
        greet == peer.replid = replid[n] /\ peer.role = "Follower"
                 /\ role[n] = "Leader"
    IN /\ [id |-> p, installed |-> FALSE] \in handles[n]
       /\ handles' = [handles EXCEPT ![n] =
                         @ \ {[id |-> p, installed |-> FALSE]}]
       /\ chan' = [chan EXCEPT ![<<n, p>>] =
             IF greet THEN Append(@, [type |-> "ClusterHeartBeat", hb |-> hb])
             ELSE @]
       /\ ChanOK(chan')
       /\ event' = NoEvent
       /\ UNCHANGED <<term, role, election_state, hwm, replid, log, members,
                      consensus_tracker, client_sessions, sched, walFails,
                      commits, applied, banVars, truncated, pureVars>>
       /\ UNCHANGED migVars

\* A node is in the middle of add_peer while a replaced peer awaits its kill.
InAddPeer(n) == \E h \in handles[n] : ~h.installed

\* Peers that reconnect under the id they already have, peers that join
\* and peers that are forgotten; a node takes its next command when its
\* handler has returned.
PeerReconnect(n, p) == ~InAddPeer(n) /\ AddPeerInsert(n, p)

PeerJoin(n, p) ==
    /\ ~InAddPeer(n)
    /\ p \notin DOMAIN members[n]
    /\ BanAddPeer(n, p)

PeerForget(n, p) == ~InAddPeer(n) /\ ForgetPeer(n, p)

PeerHeartbeat(n) == ~InAddPeer(n) /\ BanHeartbeat(n)

PeerDeliver(p, n) == ~InAddPeer(n) /\ DeliverClusterHeartBeat(p, n)

NextPeer ==
    \/ \E n \in Nodes : \E p \in Nodes \ {n} : PeerReconnect(n, p)
    \/ \E n \in Nodes : \E p \in Nodes \ {n} : AddPeerKill(n, p)
    \/ \E n \in Nodes : \E p \in Nodes \ {n} : PeerJoin(n, p)
    \/ \E n \in Nodes : \E p \in Nodes \ {n} : PeerForget(n, p)
    \/ \E n \in Nodes : PeerHeartbeat(n)
    \/ \E p \in Nodes : \E n \in Nodes \ {p} : PeerDeliver(p, n)

SpecPeer == Init /\ [][NextPeer]_vars

\* Elections in a group whose nodes may forget a peer (CLUSTER FORGET):
\* the forgotten peer still has the node among its members and asks it
\* for its vote.
ElectionForget(n, p) ==
    /\ ban_cmds < MaxForget
    /\ ForgetPeer(n, p)

\* One client writes, to the node that leads.
ForgetWrite(n) ==
    /\ role[n] = "Leader"
    /\ ElectionWrite(n, [req |-> "x", sess |-> "s1", tag |-> 0])

NextElectionForget ==
    \/ \E n \in Nodes : ForgetWrite(n)
    \/ \E n \in Nodes : Election(n)
    \/ \E n \in Nodes : \E p \in Nodes \ {n} : ElectionForget(n, p)
    \/ \E p \in Nodes : \E n \in Nodes \ {p} : DeliverAppendEntries(p, n)
    \/ \E p \in Nodes : \E n \in Nodes \ {p} : DeliverReplicationAck(p, n)
    \/ \E p \in Nodes : \E n \in Nodes \ {p} : DeliverRequestVote(p, n)
    \/ \E p \in Nodes : \E n \in Nodes \ {p} : DeliverElectionVote(p, n)

SpecElectionForget == InitElection /\ [][NextElectionForget]_vars

\* The reconfiguration with a membership change: node 2 is told to forget
\* node 3 between eager CLUSTER MEETs, so that rings of different
\* last_modified are on their way at the same time.
RingMeet(n, request_to) ==
    RebalanceRequestUpTo(n, request_to, "Eager", MaxRingMeet)

RingForget == ElectionForget(2, 3)

NextRing ==
    \/ \E n \in Nodes : \E request_to \in Nodes \ {n} : RingMeet(n, request_to)
    \/ RingForget
    \/ \E p \in Nodes : \E n \in Nodes \ {p} : DeliverStartRebalance(p, n)
    \/ \E p \in Nodes : \E n \in Nodes \ {p} : DeliverClusterHeartBeat(p, n)
    \/ \E p \in Nodes : \E n \in Nodes \ {p} : DeliverMigrateBatch(p, n)
    \/ \E p \in Nodes : \E n \in Nodes \ {p} : DeliverMigrationBatchAck(p, n)
    \/ \E t \in tasks : MigrateBatch(t)
    \/ \E t \in tasks : SendBatchAck(t)
    \/ \E t \in tasks : TryUnblockWriteReqs(t)

SpecRing == InitMig /\ [][NextRing]_vars

----------------------------------------------------------------------------
\* Replication after a change of leader

\* A state the group reaches after one election: node 1 led term 0 and wrote
\* entry 1 without a majority; node 2 won term 1, wrote its own entry 1 and
\* committed it with node 3; node 1 follows node 2 and still carries the
\* entry of term 0.
InitDiverged ==
    /\ term = [n \in Nodes |-> 1]
    /\ role = [n \in Nodes |-> IF n = 2 THEN "Leader" ELSE "Follower"]
    /\ election_state = [n \in Nodes |->
          IF n = 2 THEN [kind |-> "Leader"]
          ELSE [kind |-> "Follower", voted_for |-> {}]]
    /\ hwm = [n \in Nodes |-> IF n = 2 THEN 1 ELSE 0]
    /\ replid = [n \in Nodes |-> "g1"]
    /\ log = [n \in Nodes |->
          <<[log_index |-> 1, term |-> IF n = 1 THEN 0 ELSE 1, req |-> "x",
             sess |-> IF n = 3 THEN "none" ELSE "s1", tag |-> 0]>>]
    /\ members = [n \in Nodes |-> [p \in Nodes \ {n} |->
          [replid |-> "g1",
           role |-> IF p = 1 THEN "Leader" ELSE "Follower",
           match_index |-> IF n = 2 THEN 1 ELSE 0]]]
    /\ consensus_tracker = [n \in Nodes |->
          IF n = 1
          THEN {[idx |-> 1, req |-> "x", sess |-> "s1", cb |-> [kind |-> "client"],
                 voters |-> {}, cnt |-> 0, required |-> 1]}
          ELSE {}]
    /\ client_sessions = [n \in Nodes |-> IF n = 1 THEN {} ELSE {"s1"}]
    /\ sched = [n \in Nodes |-> IF n = 2 THEN "leader" ELSE "follower"]
    /\ chan = [pr \in {q \in Nodes \X Nodes : q[1] # q[2]} |-> <<>>]
    /\ walFails = MaxWalFail
    /\ event = NoEvent
    /\ commits = [n \in Nodes |-> IF n = 2 THEN <<1>> ELSE <<>>]
    /\ applied = [n \in Nodes |-> <<>>]
    /\ hash_ring = [n \in Nodes |->
          [partitions |-> {<<"g1", 2>>}, last_modified |-> 0]]
    /\ pending_requests = [n \in Nodes |-> None]
    /\ pending_migrations = [n \in Nodes |-> None]
    /\ cache = [n \in Nodes |-> {}]
    /\ meets = 0
    /\ tasks = {}
    /\ batch_seq = 0
    /\ tag_seq = 0
    /\ drained = {}
    /\ banlist = [n \in Nodes |-> {}]
    /\ now = 0
    /\ ban_cmds = 0
    /\ truncated = {}
    /\ handles = [n \in Nodes |-> PeerHandles(members[n])]
    /\ call = None
    /\ ret = None

DivergedWrite(n, w) ==
    /\ LeaderReqConsensus(n, w)
    /\ UNCHANGED tasks
    /\ walFails' = walFails
    /\ LastLogIndex(log'[n]) <= MaxDivergedLog
    /\ ChanOK(chan')

\* The periodic cluster heartbeat of a node whose peers are all alive; like
\* the append-entries tick it finds the node's peer queues drained.
ClusterHeartbeat(n) ==
    /\ \A p \in Nodes \ {n} : chan[<<n, p>>] = <<>> /\ chan[<<p, n>>] = <<>>
    /\ SendClusterHeartbeat(n, {})
    /\ ChanOK(chan')

NextDiverged ==
    \/ \E n \in Nodes, w \in ClientWrites : DivergedWrite(n, w)
    \/ \E n \in Nodes : Heartbeat(n)
    \/ \E n \in Nodes : ClusterHeartbeat(n)
    \/ \E p \in Nodes : \E n \in Nodes \ {p} : DeliverAppendEntries(p, n)
    \/ \E p \in Nodes : \E n \in Nodes \ {p} : DeliverReplicationAck(p, n)
    \/ \E p \in Nodes : \E n \in Nodes \ {p} : DeliverClusterHeartBeat(p, n)

SpecDiverged == InitDiverged /\ [][NextDiverged]_vars

\* ---------------------------------------------------------------------
\* Pipelined replication after a change of leader.  The leader's
\* append-entries tick does not wait for the acks of the previous one, so
\* an AppendEntriesRPC built from an old match_index can reach a follower
\* after a later one truncated its log.  Node 3 is the quick replica: what
\* is queued to or from it is handled before the other nodes' messages.
\* ---------------------------------------------------------------------
Quiet(q) ==
    \A p \in Nodes \ {q} : chan[<<q, p>>] = <<>> /\ chan[<<p, q>>] = <<>>

GapWrite(n) ==
    /\ role[n] = "Leader"
    /\ LeaderReqConsensus(n, [req |-> "y", sess |-> "s2", tag |-> 0])
    /\ UNCHANGED tasks
    /\ walFails' = walFails
    /\ LastLogIndex(log'[n]) <= MaxGapLog
    /\ ChanOK(chan')

GapTick(n) ==
    /\ SendRpc(n)
    /\ ChanOK(chan')

\* The cluster heartbeat of the former leader, node 1.
GapClusterHeartbeat ==
    /\ role[1] = "Follower"
    /\ SendClusterHeartbeat(1, {})

GapDeliver(p, n) ==
    /\ 3 \in {p, n} \/ Quiet(3)
    /\ \/ DeliverAppendEntries(p, n)
       \/ DeliverReplicationAck(p, n)
       \/ DeliverClusterHeartBeat(p, n)

NextGap ==
    \/ \E n \in Nodes : GapWrite(n)
    \/ \E n \in Nodes : GapTick(n)
    \/ GapClusterHeartbeat
    \/ \E p \in Nodes : \E n \in Nodes \ {p} : GapDeliver(p, n)

SpecGap == InitDiverged /\ [][NextGap]_vars

\* The same group right after the election, before the new leader has
\* written anything: node 1 led term 0 and wrote entry 1 without a majority;
\* node 2 won term 1 with an empty log, node 3 is empty as well.
InitElected ==
    /\ term = [n \in Nodes |-> 1]
    /\ role = [n \in Nodes |-> IF n = 2 THEN "Leader" ELSE "Follower"]
    /\ election_state = [n \in Nodes |->
          IF n = 2 THEN [kind |-> "Leader"]
          ELSE [kind |-> "Follower", voted_for |-> {}]]
    /\ hwm = [n \in Nodes |-> 0]
    /\ replid = [n \in Nodes |-> "g1"]
    /\ log = [n \in Nodes |->
          IF n = 1
          THEN <<[log_index |-> 1, term |-> 0, req |-> "x", sess |-> "s1",
                  tag |-> 0]>>
          ELSE <<>>]
    /\ members = [n \in Nodes |-> [p \in Nodes \ {n} |->
          [replid |-> "g1",
           role |-> IF p = 1 THEN "Leader" ELSE "Follower",
           match_index |-> 0]]]
    /\ consensus_tracker = [n \in Nodes |->
          IF n = 1
          THEN {[idx |-> 1, req |-> "x", sess |-> "s1", cb |-> [kind |-> "client"],
                 voters |-> {}, cnt |-> 0, required |-> 1]}
          ELSE {}]
    /\ client_sessions = [n \in Nodes |-> {}]
    /\ sched = [n \in Nodes |-> IF n = 2 THEN "leader" ELSE "follower"]
    /\ chan = [pr \in {q \in Nodes \X Nodes : q[1] # q[2]} |-> <<>>]
    /\ walFails = MaxWalFail
    /\ event = NoEvent
    /\ commits = [n \in Nodes |-> <<>>]
    /\ applied = [n \in Nodes |-> <<>>]
    /\ hash_ring = [n \in Nodes |->
          [partitions |-> {<<"g1", 2>>}, last_modified |-> 0]]
    /\ pending_requests = [n \in Nodes |-> None]
    /\ pending_migrations = [n \in Nodes |-> None]
    /\ cache = [n \in Nodes |-> {}]
    /\ meets = 0
    /\ tasks = {}
    /\ batch_seq = 0
    /\ tag_seq = 0
    /\ drained = {}
    /\ banlist = [n \in Nodes |-> {}]
    /\ now = 0
    /\ ban_cmds = 0
    /\ truncated = {}
    /\ handles = [n \in Nodes |-> PeerHandles(members[n])]
    /\ call = None
    /\ ret = None

SpecElected == InitElected /\ [][NextGap]_vars

\* The group after the election with further election timeouts: the new
\* leader takes a write and replicates it, and any node in follower mode
\* may time out and run for election.
NextSurvive ==
    \/ \E n \in Nodes, w \in ClientWrites : ElectionWrite(n, w)
    \/ \E n \in Nodes : ElectionAgain(n)
    \/ \E p \in Nodes : \E n \in Nodes \ {p} : DeliverAppendEntries(p, n)
    \/ \E p \in Nodes : \E n \in Nodes \ {p} : DeliverReplicationAck(p, n)
    \/ \E p \in Nodes : \E n \in Nodes \ {p} : DeliverRequestVote(p, n)
    \/ \E p \in Nodes : \E n \in Nodes \ {p} : DeliverElectionVote(p, n)
    \/ \E p \in Nodes : \E n \in Nodes \ {p} : DeliverClusterHeartBeat(p, n)

SpecSurvive == InitElected /\ [][NextSurvive]_vars

\* A group of five of which two replicas do not answer: the leader's
\* writes need the votes of two replicas, and its append-entries tick
\* repeats what has not been acknowledged yet.
SilentPeers == {4, 5}

InitQuorum ==
    /\ InitPeers(Nodes \cup SilentPeers)
    /\ walFails = MaxWalFail
    /\ call = None
    /\ ret = None

QuorumWrite(n) ==
    /\ role[n] = "Leader"
    /\ LeaderReqConsensus(n, [req |-> "x", sess |-> "s1", tag |-> 0])
    /\ UNCHANGED tasks
    /\ LastLogIndex(log'[n]) <= MaxQuorumLog
    /\ ChanOK(chan')

NextQuorum ==
    \/ \E n \in Nodes : QuorumWrite(n)
    \/ \E n \in Nodes : GapTick(n)
    \/ \E p \in Nodes : \E n \in Nodes \ {p} : DeliverAppendEntries(p, n)
    \/ \E p \in Nodes : \E n \in Nodes \ {p} : DeliverReplicationAck(p, n)

SpecQuorum == InitQuorum /\ [][NextQuorum]_vars

----------------------------------------------------------------------------
\* Gossip hop count

\* usize::ilog: how often n can be divided by the base before it falls
\* below the base.
RECURSIVE Ilog(_, _)
Ilog(n, base) == IF n < base THEN 0 ELSE 1 + Ilog(n \div base, base)

\* `as u8`: the low eight bits
U8(x) == x % 256

HopCountNoShortcut(fanout, node_count) == U8(Ilog(node_count, fanout))

HopCount(fanout, node_count) ==
    IF node_count <= fanout THEN 0 ELSE U8(Ilog(node_count, fanout))

InitHop ==
    /\ InitCluster
    /\ walFails = 0
    /\ call \in {[fn |-> "hop_count", fanout |-> f, node_count |-> n] :
                    f \in 2..MaxFanout, n \in 0..MaxNodeCount}
    /\ ret = None

ApplyHopCount ==
    /\ ret = None
    /\ ret' = Some(HopCount(call.fanout, call.node_count))
    /\ UNCHANGED <<replVars, migVars, banVars, truncated, handles, call>>

SpecHop == InitHop /\ [][ApplyHopCount]_vars

----------------------------------------------------------------------------
\* Client requests (presentation/clients/request.rs).  A string is the
\* sequence of its characters.

Alphabet ==
    [lower |-> <<"a", "b", "c", "d", "e", "f", "g", "h", "i", "j", "k", "l", "m", "n", "o", "p", "q", "r", "s", "t", "u", "v", "w", "x", "y", "z">>,
     upper |-> <<"A", "B", "C", "D", "E", "F", "G", "H", "I", "J", "K", "L", "M", "N", "O", "P", "Q", "R", "S", "T", "U", "V", "W", "X", "Y", "Z">>]

\* str::to_uppercase and str::to_lowercase on ASCII text
ToUppercase(s) ==
    [i \in 1..Len(s) |->
        IF \E j \in 1..26 : Alphabet.lower[j] = s[i]
        THEN Alphabet.upper[CHOOSE j \in 1..26 : Alphabet.lower[j] = s[i]]
        ELSE s[i]]

ToLowercase(s) ==
    [i \in 1..Len(s) |->
        IF \E j \in 1..26 : Alphabet.upper[j] = s[i]
        THEN Alphabet.lower[CHOOSE j \in 1..26 : Alphabet.upper[j] = s[i]]
        ELSE s[i]]

Digits == <<"0", "1", "2", "3", "4", "5", "6", "7", "8", "9">>

RECURSIVE DecimalValue(_)
DecimalValue(s) ==
    IF s = <<>> THEN 0
    ELSE 10 * DecimalValue(SubSeq(s, 1, Len(s) - 1))
         + (CHOOSE d \in 0..9 : Digits[d + 1] = s[Len(s)])

\* str::parse::<i64> (signed) and str::parse::<u64>: an optional sign, then
\* one or more digits; None for the parse error.  The texts modelled are
\* far from the integer limits.
ParseInt(s, signed) ==
    LET signs == IF signed THEN {"+", "-"} ELSE {"+"}
        hasSign == s # <<>> /\ s[1] \in signs
        body == IF hasSign THEN Tail(s) ELSE s
    IN IF body = <<>> \/ \E i \in 1..Len(body) :
                           \A d \in 1..10 : Digits[d] # body[i]
       THEN None
       ELSE Some(IF hasSign /\ s[1] = "-" THEN 0 - DecimalValue(body)
                 ELSE DecimalValue(body))

\* the argument-count error of a command name
WrongArgs(name) ==
    <<"(error) ERR wrong number of arguments for '">> \o name
        \o <<"' command">>

\* The closures of extract_action; None is Ok(()), Some(e) is Err(e).
RequireExactArgsNoLower(cmd, args, count) ==
    IF Len(args) # count THEN Some(WrongArgs(cmd)) ELSE None

RequireExactArgs(cmd, args, count) ==
    IF Len(args) # count THEN Some(WrongArgs(ToLowercase(cmd))) ELSE None

RequireNonEmptyArgs(cmd, args) ==
    IF args = <<>> THEN Some(WrongArgs(ToLowercase(cmd))) ELSE None

\* args.iter().map(|s| format!("'{s}'")).collect::<Vec<_>>().join(" ")
RECURSIVE QuotedArgs(_)
QuotedArgs(args) ==
    IF args = <<>> THEN <<>>
    ELSE <<"'">> \o args[1] \o <<"'">>
         \o (IF Len(args) > 1 THEN <<" ">> \o QuotedArgs(Tail(args))
             ELSE <<>>)

\* extract_action.  A ClientAction is a record with its variant in `kind`.
\* bind_addr of the peer address of CLUSTER FORGET and CLUSTER MEET passes
\* the text through.
ExtractAction(action, args) ==
    LET cmd == ToUppercase(action)
        n == Len(args)
    IN CASE cmd = <<"S", "E", "T">> ->
             IF ~(n = 2 \/ (n = 4 /\ ToUppercase(args[3]) = <<"P", "X">>))
             THEN [ok |-> FALSE, err |-> WrongArgs(<<"s", "e", "t">>)]
             ELSE IF n = 2
             THEN [ok |-> TRUE, action |-> [kind |-> "Set", key |-> args[1], value |-> args[2]]]
             ELSE IF ParseInt(args[4], TRUE) = None
             THEN [ok |-> FALSE, err |-> <<"Invalid expiry">>]
             ELSE [ok |-> TRUE, action |-> [kind |-> "SetWithExpiry", key |-> args[1], value |-> args[2],
                      expiry |-> now * 1000 + ParseInt(args[4], TRUE)[1]]]
         [] cmd = <<"A", "P", "P", "E", "N", "D">> ->
             IF n # 2
             THEN [ok |-> FALSE, err |-> WrongArgs(<<"a", "p", "p", "e", "n", "d">>)]
             ELSE [ok |-> TRUE, action |-> [kind |-> "Append", key |-> args[1], value |-> args[2]]]
         [] cmd = <<"G", "E", "T">> ->
             IF n = 1
             THEN [ok |-> TRUE, action |-> [kind |-> "Get", key |-> args[1]]]
             ELSE IF n = 2
             THEN IF ParseInt(args[2], FALSE) = None
                  THEN [ok |-> FALSE, err |-> <<"invalid digit found in string">>]
                  ELSE [ok |-> TRUE, action |-> [kind |-> "IndexGet", key |-> args[1],
                      index |-> ParseInt(args[2], FALSE)[1]]]
             ELSE [ok |-> FALSE, err |-> WrongArgs(<<"g", "e", "t">>)]
         [] cmd = <<"K", "E", "Y", "S">> ->
             IF RequireExactArgs(cmd, args, 1) # None
             THEN [ok |-> FALSE, err |-> RequireExactArgs(cmd, args, 1)[1]]
             ELSE [ok |-> TRUE, action |-> [kind |-> "Keys", pattern |-> IF args[1] = <<"*">> THEN None
                                              ELSE Some(args[1])]]
         [] cmd = <<"D", "E", "L">> ->
             IF RequireNonEmptyArgs(cmd, args) # None
             THEN [ok |-> FALSE, err |-> RequireNonEmptyArgs(cmd, args)[1]]
             ELSE [ok |-> TRUE, action |-> [kind |-> "Delete", keys |-> args]]
         [] cmd = <<"E", "X", "I", "S", "T", "S">> ->
             IF RequireNonEmptyArgs(cmd, args) # None
             THEN [ok |-> FALSE, err |-> RequireNonEmptyArgs(cmd, args)[1]]
             ELSE [ok |-> TRUE, action |-> [kind |-> "Exists", keys |-> args]]
         [] cmd = <<"P", "I", "N", "G">> ->
             IF RequireExactArgs(cmd, args, 0) # None
             THEN [ok |-> FALSE, err |-> RequireExactArgs(cmd, args, 0)[1]]
             ELSE [ok |-> TRUE, action |-> [kind |-> "Ping"]]
         [] cmd = <<"E", "C", "H", "O">> ->
             IF RequireExactArgs(cmd, args, 1) # None
             THEN [ok |-> FALSE, err |-> RequireExactArgs(cmd, args, 1)[1]]
             ELSE [ok |-> TRUE, action |-> [kind |-> "Echo", message |-> args[1]]]
         [] cmd = <<"I", "N", "F", "O">> ->
             IF RequireNonEmptyArgs(cmd, args) # None
             THEN [ok |-> FALSE, err |-> RequireNonEmptyArgs(cmd, args)[1]]
             ELSE [ok |-> TRUE, action |-> [kind |-> "Info"]]
         [] cmd = <<"C", "L", "U", "S", "T", "E", "R">> ->
             IF RequireNonEmptyArgs(cmd, args) # None
             THEN [ok |-> FALSE, err |-> RequireNonEmptyArgs(cmd, args)[1]]
             ELSE LET sub == ToUppercase(args[1])
                  IN CASE sub = <<"N", "O", "D", "E", "S">> -> [ok |-> TRUE, action |-> [kind |-> "ClusterNodes"]]
                       [] sub = <<"I", "N", "F", "O">> -> [ok |-> TRUE, action |-> [kind |-> "ClusterInfo"]]
                       [] sub = <<"F", "O", "R", "G", "E", "T">> ->
                            IF n # 2 THEN [ok |-> FALSE, err |-> WrongArgs(<<"c", "l", "u", "s", "t", "e", "r", " ", "f", "o", "r", "g", "e", "t">>)]
                            ELSE [ok |-> TRUE, action |-> [kind |-> "ClusterForget", peer |-> args[2]]]
                       [] sub = <<"M", "E", "E", "T">> ->
                            IF n = 2
                            THEN [ok |-> TRUE, action |-> [kind |-> "ClusterMeet", peer |-> args[2], option |-> "Lazy"]]
                            ELSE IF n = 3
                            THEN IF ToLowercase(args[3]) \in {<<"l", "a", "z", "y">>, <<"e", "a", "g", "e", "r">>}
                                 THEN [ok |-> TRUE, action |-> [kind |-> "ClusterMeet", peer |-> args[2],
                                       option |-> IF ToLowercase(args[3]) = <<"l", "a", "z", "y">>
                                                  THEN "Lazy" ELSE "Eager"]]
                                 ELSE [ok |-> FALSE, err |-> <<"(error) ERR wrong arguments for 'cluster meet' command, expected 'lazy' or 'eager'">>]
                            ELSE [ok |-> FALSE, err |-> WrongArgs(<<"c", "l", "u", "s", "t", "e", "r", " ", "m", "e", "e", "t">>)]
                       [] sub = <<"R", "E", "S", "H", "A", "R", "D">> -> [ok |-> TRUE, action |-> [kind |-> "ClusterReshard"]]
                       [] OTHER -> [ok |-> FALSE, err |-> <<"(error) ERR unknown subcommand">>]
         [] cmd = <<"R", "E", "P", "L", "I", "C", "A", "O", "F">> ->
             IF RequireExactArgs(cmd, args, 2) # None
             THEN [ok |-> FALSE, err |-> RequireExactArgs(cmd, args, 2)[1]]
             ELSE IF ParseInt(args[2], FALSE) = None
                  THEN [ok |-> FALSE, err |-> <<"invalid digit found in string">>]
                  ELSE [ok |-> TRUE, action |-> [kind |-> "ReplicaOf", host |-> args[1],
                      port |-> ParseInt(args[2], FALSE)[1]]]
         [] cmd = <<"R", "O", "L", "E">> ->
             IF RequireExactArgs(cmd, args, 0) # None
             THEN [ok |-> FALSE, err |-> RequireExactArgs(cmd, args, 0)[1]]
             ELSE [ok |-> TRUE, action |-> [kind |-> "Role"]]
         [] cmd = <<"C", "O", "N", "F", "I", "G">> ->
             IF RequireExactArgs(cmd, args, 2) # None
             THEN [ok |-> FALSE, err |-> RequireExactArgs(cmd, args, 2)[1]]
             ELSE [ok |-> TRUE, action |-> [kind |-> "Config", key |-> args[1], value |-> args[2]]]
         [] cmd = <<"S", "A", "V", "E">> ->
             IF RequireExactArgs(cmd, args, 0) # None
             THEN [ok |-> FALSE, err |-> RequireExactArgs(cmd, args, 0)[1]]
             ELSE [ok |-> TRUE, action |-> [kind |-> "Save"]]
         [] cmd = <<"I", "N", "C", "R">> ->
             IF RequireExactArgs(cmd, args, 1) # None
             THEN [ok |-> FALSE, err |-> RequireExactArgs(cmd, args, 1)[1]]
             ELSE [ok |-> TRUE, action |-> [kind |-> "Incr", key |-> args[1]]]
         [] cmd = <<"D", "E", "C", "R">> ->
             IF RequireExactArgs(cmd, args, 1) # None
             THEN [ok |-> FALSE, err |-> RequireExactArgs(cmd, args, 1)[1]]
             ELSE [ok |-> TRUE, action |-> [kind |-> "Decr", key |-> args[1]]]
         [] cmd = <<"T", "T", "L">> ->
             IF RequireExactArgs(cmd, args, 1) # None
             THEN [ok |-> FALSE, err |-> RequireExactArgs(cmd, args, 1)[1]]
             ELSE [ok |-> TRUE, action |-> [kind |-> "Ttl", key |-> args[1]]]
         [] cmd = <<"I", "N", "C", "R", "B", "Y">> ->
             IF RequireExactArgs(cmd, args, 2) # None
             THEN [ok |-> FALSE, err |-> RequireExactArgs(cmd, args, 2)[1]]
             ELSE IF ParseInt(args[2], TRUE) = None
                  THEN [ok |-> FALSE, err |-> <<"invalid digit found in string">>]
                  ELSE [ok |-> TRUE, action |-> [kind |-> "IncrBy", key |-> args[1],
                      increment |-> ParseInt(args[2], TRUE)[1]]]
         [] cmd = <<"D", "E", "C", "R", "B", "Y">> ->
             IF RequireExactArgs(cmd, args, 2) # None
             THEN [ok |-> FALSE, err |-> RequireExactArgs(cmd, args, 2)[1]]
             ELSE IF ParseInt(args[2], TRUE) = None
                  THEN [ok |-> FALSE, err |-> <<"invalid digit found in string">>]
                  ELSE [ok |-> TRUE, action |-> [kind |-> "DecrBy", key |-> args[1],
                      decrement |-> ParseInt(args[2], TRUE)[1]]]
         [] cmd = <<"M", "G", "E", "T">> ->
             IF RequireNonEmptyArgs(cmd, args) # None
             THEN [ok |-> FALSE, err |-> RequireNonEmptyArgs(cmd, args)[1]]
             ELSE [ok |-> TRUE, action |-> [kind |-> "MGet", keys |-> args]]
     [] OTHER ->
             [ok |-> FALSE,
              err |-> <<"(error) ERR unknown command '">> \o cmd
                      \o <<"', with args beginning with ">> \o QuotedArgs(args)]

ConsensusRequiredNoDelete(a) ==
    a.kind \in {"Set", "SetWithExpiry", "Append", "Incr", "Decr",
                "IncrBy", "DecrBy"}

ConsensusRequired(a) ==
    a.kind \in {"Set", "SetWithExpiry", "Append", "Delete", "Incr", "Decr",
                "IncrBy", "DecrBy"}

\* to_write_request; None where the code reaches unreachable!()
ToWriteRequest(a) ==
    CASE a.kind = "Set" ->
           Some([kind |-> "Set", key |-> a.key, value |-> a.value,
                 expires_at |-> None])
      [] a.kind = "SetWithExpiry" ->
           Some([kind |-> "Set", key |-> a.key, value |-> a.value,
                 expires_at |-> Some(a.expiry)])
      [] a.kind = "Append" ->
           Some([kind |-> "Append", key |-> a.key, value |-> a.value])
      [] a.kind = "Delete" -> Some([kind |-> "Delete", keys |-> a.keys])
      [] a.kind = "Incr" -> Some([kind |-> "Incr", key |-> a.key, delta |-> 1])
      [] a.kind = "Decr" -> Some([kind |-> "Decr", key |-> a.key, delta |-> 1])
      [] a.kind = "IncrBy" ->
           Some([kind |-> "Incr", key |-> a.key, delta |-> a.increment])
      [] a.kind = "DecrBy" ->
           Some([kind |-> "Decr", key |-> a.key, delta |-> a.decrement])
      [] OTHER -> None

\* The commands of extract_action and one it does not know
CommandWords ==
    {<<"S", "E", "T">>,
     <<"A", "P", "P", "E", "N", "D">>,
     <<"G", "E", "T">>,
     <<"K", "E", "Y", "S">>,
     <<"D", "E", "L">>,
     <<"E", "X", "I", "S", "T", "S">>,
     <<"P", "I", "N", "G">>,
     <<"E", "C", "H", "O">>,
     <<"I", "N", "F", "O">>,
     <<"C", "L", "U", "S", "T", "E", "R">>,
     <<"R", "E", "P", "L", "I", "C", "A", "O", "F">>,
     <<"R", "O", "L", "E">>,
     <<"C", "O", "N", "F", "I", "G">>,
     <<"S", "A", "V", "E">>,
     <<"I", "N", "C", "R">>,
     <<"D", "E", "C", "R">>,
     <<"T", "T", "L">>,
     <<"I", "N", "C", "R", "B", "Y">>,
     <<"D", "E", "C", "R", "B", "Y">>,
     <<"M", "G", "E", "T">>,
     <<"F", "O", "O">>}

\* upper case, lower case and capitalised
Spellings(w) ==
    {w, ToLowercase(w),
     [i \in 1..Len(w) |-> IF i = 1 THEN w[i] ELSE ToLowercase(w)[i]]}

Lists(S, k) == UNION {[1..j -> S] : j \in 0..k}

\* Argument lists: keys, numbers and the PX option, and the CLUSTER
\* subcommands followed by an address and a lazy option
ArgLists ==
    Lists({<<"k">>, <<"7">>, <<"p", "x">>, <<"*">>}, MaxArgs)
    \cup {<<sub>> \o rest :
            sub \in {<<"n", "o", "d", "e", "s">>, <<"i", "n", "f", "o">>,
                     <<"f", "o", "r", "g", "e", "t">>, <<"m", "e", "e", "t">>,
                     <<"r", "e", "s", "h", "a", "r", "d">>},
            rest \in Lists({<<"h", ":", "1">>, <<"E", "a", "g", "e", "r">>},
                           MaxSubArgs)}

InitRequest ==
    /\ InitCluster
    /\ walFails = 0
    /\ call \in {[fn |-> "extract_action", action |-> a, args |-> l] :
                    a \in UNION {Spellings(w) : w \in CommandWords},
                    l \in ArgLists}
    /\ ret = None

\* extract_action, then consensus_required and to_write_request on the
\* action it made
ApplyExtractAction ==
    /\ ret = None
    /\ ret' = Some(LET r == ExtractAction(call.action, call.args)
                   IN IF r.ok
                      THEN r @@ [consensus |-> ConsensusRequired(r.action),
                                 write |-> ToWriteRequest(r.action)]
                      ELSE r)
    /\ UNCHANGED <<replVars, migVars, banVars, truncated, handles, call>>

SpecRequest == InitRequest /\ [][ApplyExtractAction]_vars

----------------
\* Properties

\* Every entry of log f is in log l at the same index with the same term
\* and request.
IsLogPrefix(f, l) ==
    \A i \in 1..Len(log[f]) :
        \E j \in 1..Len(log[l]) :
            /\ log[l][j].log_index = log[f][i].log_index
            /\ log[l][j].term = log[f][i].term
            /\ log[l][j].req = log[f][i].req

\* C1: after an AppendEntriesRPC that the follower acknowledges as granted,
\* the follower's log is a prefix of the sending leader's log.
C1_AcceptedLogIsPrefix ==
    event.type = "ack" => IsLogPrefix(event.node, event.leader)

\* C2: a client callback is completed with LogIndex(i) only when hwm >= i.
C2_CallbackAfterHwm ==
    (event.type = "resp" /\ event.kind = "LogIndex") => hwm[event.node] >= event.idx

IsIncreasing(sq) == \A i \in 1..Len(sq) : \A j \in 1..Len(sq) : i < j => sq[i] < sq[j]

\* C4: on a node, callbacks are completed with LogIndex in log_index order
\* and entries are applied to the cache in increasing log_index order.
C4_CommitInIndexOrder ==
    \A n \in Nodes : IsIncreasing(commits[n]) /\ IsIncreasing(applied[n])

\* C5: at most one entry of a log carries a given session request.
C5_AtMostOnce ==
    \A n \in Nodes : \A i \in 1..Len(log[n]) : \A j \in 1..Len(log[n]) :
        (log[n][i].sess # "none" /\ log[n][i].sess = log[n][j].sess) => i = j

\* A write carrying session s is committed in the group: some log holds an
\* entry carrying s at an index that some node's hwm has reached.
CommittedInGroup(s) ==
    \E m \in Nodes : \E i \in 1..Len(log[m]) :
        /\ log[m][i].sess = s
        /\ \E k \in Nodes : hwm[k] >= log[m][i].log_index

\* C6: a node answers AlreadyProcessed for s only after a write carrying s
\* was committed (its entry is at an index that the group's hwm has reached).
C6_AlreadyProcessedWasCommitted ==
    (event.type = "resp" /\ event.kind = "AlreadyProcessed")
        => CommittedInGroup(event.sess)

\* C3 as stated: no step makes the hwm of a node smaller.
C3_HwmNonDecreasing == [][\A n \in Nodes : hwm'[n] >= hwm[n]]_vars

\* C3: no step makes the hwm of a node smaller, except ReplicaOf on that
\* node, which stores 0.
C3_HwmNonDecreasingExceptReplicaOf ==
    [][\A n \in Nodes :
          \/ hwm'[n] >= hwm[n]
          \/ event'.type = "replicaof" /\ event'.node = n /\ hwm'[n] = 0]_vars

\* A node that had completed a commit handled ReplicaOf: its hwm is back to 0.
C3_Witness ==
    /\ event.type = "replicaof"
    /\ commits[event.node] # <<>>
    /\ hwm[event.node] = 0

\* A write carrying session s is committed on leader n.
CommittedOn(n, s) ==
    /\ role[n] = "Leader"
    /\ \E i \in 1..Len(log[n]) :
          log[n][i].sess = s /\ log[n][i].log_index <= hwm[n]

\* C7: with no reconfiguration (no rebalance was ever requested, writes are
\* not blocked), a LeaderReqConsensus whose session is committed on the
\* leader is answered AlreadyProcessed with the last log index and changes
\* neither the log, the consensus tracker nor hwm.
C7_RetryIsAlreadyProcessed ==
    [][\A n \in Nodes : \A w \in MigWrites :
          (/\ CommittedOn(n, w.sess)
           /\ pending_requests[n] = None
           /\ meets = 0
           /\ LeaderReqConsensus(n, w))
          => /\ event'.kind = "AlreadyProcessed"
             /\ event'.idx = LastLogIndex(log[n])
             /\ log' = log
             /\ consensus_tracker' = consensus_tracker
             /\ hwm' = hwm]_vars

ClientEntries(lg) == SelectSeq(lg, LAMBDA e : e.req \in {"x", "y"})

\* C8: a step taken while pending_requests of n is Some appends no client
\* write to the log of n and completes no client callback of n; a
\* LeaderReqConsensus handled then pushes the request to the back of
\* pending_requests and changes neither log, hwm nor the completed callbacks.
C8_BlockedWritesOnlyQueued ==
    [][\A n \in Nodes :
          pending_requests[n] # None =>
             /\ ClientEntries(log'[n]) = ClientEntries(log[n])
             /\ ~(event'.type = "resp" /\ event'.node = n
                     /\ event'.cb.kind = "client")
             /\ (event'.type = "queued" /\ event'.node = n) =>
                   /\ pending_requests'[n] =
                         Some(Append(pending_requests[n][1], event'.w))
                   /\ log' = log
                   /\ hwm' = hwm
                   /\ commits' = commits]_vars

\* A second request was pushed behind the first one.
C8_Witness ==
    /\ event.type = "queued"
    /\ pending_requests[event.node] # None
    /\ Len(pending_requests[event.node][1]) = 2

\* C9: two requests that one unblock took from pending_requests, a queued
\* before b, are in the log in that order when both are in the log.
C9_DrainedInQueueOrder ==
    \A d \in drained : \A p \in 1..Len(d) : \A q \in 1..Len(d) :
        p < q =>
            \A n \in Nodes : \A i \in 1..Len(log[n]) : \A j \in 1..Len(log[n]) :
                (log[n][i].tag = d[p] /\ log[n][j].tag = d[q]) => i < j

\* C10: blocked writes are eventually unblocked.
C10_BlockedEventuallyDrained ==
    \A n \in Nodes : (pending_requests[n] # None) ~> (pending_requests[n] = None)

\* The nodes whose cache holds key k.
Holders(k) == {m \in Nodes : k \in cache[m]}

AllKeys == UNION {cache[m] : m \in Nodes}

\* The ring update of n has quiesced: n migrated keys (it committed the
\* Delete of a batch), no migration is pending and writes are unblocked.
RingQuiesced(n) ==
    /\ \E i \in 1..Len(log[n]) : log[n][i].req = "delete"
    /\ pending_migrations[n] = None
    /\ pending_requests[n] = None

\* C11: once the ring update of n has quiesced, the group that the ring of n
\* names for a key k held in the cluster is a group whose cache holds k.
C11_RingOwnerHoldsKey ==
    \A n \in Nodes : \A k \in AllKeys :
        RingQuiesced(n) =>
            \E m \in Holders(k) : replid[m] = GetNodeForKeys(hash_ring[n], k)

\* The nodes of replication group g.
GroupNodes(g) == {m \in Nodes : replid[m] = g}

\* C12: a key under migration is always held by some group, and once the
\* source has committed and applied the Delete of an acked batch, every key of
\* the batch is held by the target group and not by the source.
C12_MigrationMovesKeys ==
    /\ \A k \in InitialKeys : Holders(k) # {}
    /\ event.type = "unblock" =>
          \A k \in event.batch.keys :
              /\ k \notin cache[event.node]
              /\ \E m \in GroupNodes(event.batch.id[1]) : k \in cache[m]

\* The source has applied the Delete of a batch that carried a key.
C12_Witness ==
    /\ event.type = "unblock"
    /\ event.batch.keys # {}
    /\ \E m \in GroupNodes(event.batch.id[1]) : event.batch.keys \subseteq cache[m]

\* The message at the head of the stream from p to n is the one whose
\* handling on n completed the callback shown in event: it was delivered to n
\* in the last step and is about to be delivered again.
DeliveredBefore(p, n, msg_type, cb_kind) ==
    /\ chan[<<p, n>>] # <<>>
    /\ Head(chan[<<p, n>>]).type = msg_type
    /\ event.type = "resp"
    /\ event.node = n
    /\ event.cb.kind = cb_kind
    /\ event.cb.batch.id = Head(chan[<<p, n>>]).batch_id

\* C13: the second delivery of a MigrateBatch to the target, or of a
\* MigrationBatchAck to the source, appends no log entry, changes no cache and
\* starts no further task.
C13_RedeliveryIsNoOp ==
    [][\A p \in Nodes : \A n \in Nodes \ {p} :
          (\/ DeliveredBefore(p, n, "MigrateBatch", "mset")
                 /\ DeliverMigrateBatch(p, n)
           \/ DeliveredBefore(p, n, "MigrationBatchAck", "delete")
                 /\ DeliverMigrationBatchAck(p, n))
          => /\ log' = log
             /\ cache' = cache
             /\ tasks' = tasks]_vars

\* C14: a node becomes leader in term t only on a vote that was granted for
\* term t (votes cast for an earlier term never make it leader).
C14_LeaderByVotesOfItsTerm ==
    [][\A p \in Nodes : \A n \in Nodes \ {p} :
          (/\ DeliverElectionVote(p, n)
           /\ role[n] # "Leader"
           /\ role'[n] = "Leader")
          => Head(chan[<<p, n>>]).term = term[n]]_vars

\* C15: after every command (forget_peer, add_peer, send and receive of a
\* cluster heartbeat, in any order) no peer is both in a node's ban list and
\* a key of its members.
C15_BannedNotInMembers ==
    \A n \in Nodes : \A b \in banlist[n] : b.p_id \notin DOMAIN members[n]

\* A node learnt a ban from a heartbeat and dropped the peer it still had.
C15_Witness ==
    \E n \in Nodes : \E b \in banlist[n] :
        /\ b.p_id # n
        /\ b.p_id \notin DOMAIN members[n]
        /\ \E m \in Nodes \ {n} : b \in banlist[m]
        /\ ban_cmds = 1

\* C16: ban entries expire after 60 seconds: a cluster heartbeat of a peer
\* whose ban entry at the receiver is 60 or more seconds old is not dropped
\* as coming from a banned peer.
C16_BanExpiresAfterTtl ==
    [][\A p \in Nodes : \A n \in Nodes \ {p} :
          (/\ DeliverClusterHeartBeat(p, n)
           /\ \A b \in banlist[n] :
                 b.p_id = p => now - b.ban_time >= BanTtlSecs)
          => event'.type # "banned"]_vars

\* The entries of follower f and leader l agree, entry for entry, up to
\* index upto: same indices, terms and requests.
SameLogUpTo(f, l, upto) ==
    \A i \in 1..upto :
        {<<e.term, e.req>> : e \in ReadAt(log[f], i)}
            = {<<e.term, e.req>> : e \in ReadAt(log[l], i)}

\* C17: a follower that truncated its log on a term mismatch at
\* prev_log_index and then accepts an AppendEntriesRPC of the same leader has
\* the leader's log, entry for entry, up to the index it acknowledges.
C17_TruncatedFollowerConverges ==
    (/\ event.type = "ack"
     /\ <<event.node, event.leader>> \in truncated)
    => SameLogUpTo(event.node, event.leader, event.log_idx)

\* C18: after every command, a node in role Leader has election_state
\* Leader, also when the node handles an AppendEntriesRPC or a RunForElection
\* command while it is Leader.
C18_LeaderHasLeaderElectionState ==
    \A n \in Nodes : role[n] = "Leader" => election_state[n].kind = "Leader"

\* C19: the term of a node never decreases, and a command that raises it
\* leaves the node in role Follower with voted_for = None.
C19_TermBumpEndsFollower ==
    [][\A n \in Nodes :
          /\ term'[n] >= term[n]
          /\ term'[n] > term[n] =>
                /\ role'[n] = "Follower"
                /\ election_state'[n] = [kind |-> "Follower", voted_for |-> {}]]_vars

\* C19, amended: the term of a node never decreases; an AppendEntriesRPC that
\* raises it leaves the node in role Follower with voted_for = None, a
\* RequestVote that raises it leaves the node in role Follower with
\* voted_for = the candidate, and RunForElection raises it by one and leaves
\* the node a Candidate in the role it had.
C19_TermBumpByCommand ==
    [][\A n \in Nodes :
          /\ term'[n] >= term[n]
          /\ term'[n] > term[n] =>
                \/ /\ \E p \in Nodes \ {n} : DeliverAppendEntries(p, n)
                   /\ role'[n] = "Follower"
                   /\ election_state'[n] = [kind |-> "Follower", voted_for |-> {}]
                \/ \E p \in Nodes \ {n} :
                      /\ DeliverRequestVote(p, n)
                      /\ role'[n] = "Follower"
                      /\ election_state'[n] =
                            [kind |-> "Follower", voted_for |-> {p}]
                \/ /\ Election(n)
                   /\ term'[n] = term[n] + 1
                   /\ election_state'[n].kind = "Candidate"
                   /\ role'[n] = role[n]]_vars

\* The former leader refused its vote (its log is longer than the
\* candidate's) and took the new term from the new leader's AppendEntriesRPC.
C19_Witness ==
    /\ term[1] = 1
    /\ role[1] = "Follower"
    /\ election_state[1] = [kind |-> "Follower", voted_for |-> {}]
    /\ log[1] # <<>>
    /\ log[2] = <<>>
    /\ log[3] = <<>>
    /\ \E n \in Nodes \ {1} : role[n] = "Leader" /\ term[n] = 1

\* C20: in every reachable state the hwm of a node is at most the last index
\* of its local log.
C20_HwmWithinLog ==
    \A n \in Nodes : hwm[n] <= LastLogIndex(log[n])

\* C21: log indices are dense from 1 on every node: the log holds exactly
\* the indices 1..last_log_index, with no gap.
C21_LogIndicesDense ==
    \A n \in Nodes : \A i \in 1..Len(log[n]) : log[n][i].log_index = i


\* C22: when a peer is added under a peer id that is already in members,
\* at no point are there two live handles for that peer id.
C22_OneLiveHandlePerPeer ==
    \A n \in Nodes : \A p \in Nodes :
        Cardinality({h \in handles[n] : h.id = p}) <= 1

RECURSIVE Pow(_, _)
Pow(b, k) == IF k = 0 THEN 1 ELSE b * Pow(b, k - 1)

\* the k with b^k <= n < b^(k+1), for n >= 1
FloorLog(b, n) == CHOOSE k \in 0..n : Pow(b, k) <= n /\ n < Pow(b, k + 1)

\* C23: hop_count(fanout, n) is 0 when n <= fanout and the floor of the
\* logarithm of n to the base fanout otherwise, and fits a u8.
C23_HopCountIsFloorLog ==
    (call # None /\ call.fn = "hop_count" /\ ret # None) =>
        /\ ret[1] \in 0..255
        /\ ret[1] = IF call.node_count <= call.fanout THEN 0
                    ELSE FloorLog(call.fanout, call.node_count)

C23_Witness ==
    /\ call # None /\ call.fn = "hop_count" /\ ret # None
    /\ call.node_count > call.fanout
    /\ call.node_count < call.fanout * call.fanout * call.fanout
    /\ ret[1] = 2

\* The commands that extract_action hands to require_exact_args, with the
\* count, and those it hands to require_non_empty_args.
ExactArgsOf ==
    {<<<<"K", "E", "Y", "S">>, 1>>, <<<<"P", "I", "N", "G">>, 0>>,
     <<<<"E", "C", "H", "O">>, 1>>,
     <<<<"R", "E", "P", "L", "I", "C", "A", "O", "F">>, 2>>,
     <<<<"R", "O", "L", "E">>, 0>>, <<<<"C", "O", "N", "F", "I", "G">>, 2>>,
     <<<<"S", "A", "V", "E">>, 0>>, <<<<"I", "N", "C", "R">>, 1>>,
     <<<<"D", "E", "C", "R">>, 1>>, <<<<"T", "T", "L">>, 1>>,
     <<<<"I", "N", "C", "R", "B", "Y">>, 2>>,
     <<<<"D", "E", "C", "R", "B", "Y">>, 2>>}

NonEmptyArgsOf ==
    {<<"D", "E", "L">>, <<"E", "X", "I", "S", "T", "S">>,
     <<"I", "N", "F", "O">>, <<"C", "L", "U", "S", "T", "E", "R">>,
     <<"M", "G", "E", "T">>}

\* The argument count that the command's check accepts
AcceptedCount(cmd, n) ==
    \/ \E e \in ExactArgsOf : e[1] = cmd /\ e[2] = n
    \/ cmd \in NonEmptyArgsOf /\ n > 0

ArgCountChecked(cmd) ==
    cmd \in NonEmptyArgsOf \/ \E e \in ExactArgsOf : e[1] = cmd

\* Rejections and acceptances of the two checks, for the error text that
\* ends with the given closing
ArgCountErrors(closing) ==
    (call # None /\ call.fn = "extract_action" /\ ret # None
       /\ ArgCountChecked(ToUppercase(call.action))) =>
        LET msg == <<"(error) ERR wrong number of arguments for '">>
                       \o ToLowercase(call.action) \o <<closing>>
        IN IF AcceptedCount(ToUppercase(call.action), Len(call.args))
           THEN ret[1].ok \/ ret[1].err # msg
           ELSE ~ret[1].ok /\ ret[1].err = msg

\* C24 as stated: require_exact_args(count) rejects every argument list
\* whose length differs from count and require_non_empty_args rejects the
\* empty list, each with "(error) ERR wrong number of arguments for
\* '<cmd>'", <cmd> being the lower-cased command; lists at the accepted
\* count are not rejected by them.
C24_ArgCountErrorAsStated == ArgCountErrors("'")

\* C24 as the code has it: the same, the error string being "(error) ERR
\* wrong number of arguments for '<cmd>' command".
C24_ArgCountErrorWithCommand == ArgCountErrors("' command")

C24_Witness ==
    /\ call # None /\ call.fn = "extract_action" /\ ret # None
    /\ call.action = <<"I", "n", "c", "r", "b", "y">>
    /\ Len(call.args) = 3
    /\ ~ret[1].ok
    /\ ret[1].err = <<"(error) ERR wrong number of arguments for '",
                      "i", "n", "c", "r", "b", "y", "' command">>

\* C25: consensus_required is true for exactly the actions of SET, SET PX,
\* APPEND, DEL, INCR, INCRBY, DECR and DECRBY, and to_write_request is
\* defined for exactly the actions for which it is true.
C25_ConsensusOnlyForWrites ==
    (call # None /\ call.fn = "extract_action" /\ ret # None /\ ret[1].ok) =>
        /\ ret[1].consensus <=>
              ToUppercase(call.action) \in
                  {<<"S", "E", "T">>, <<"A", "P", "P", "E", "N", "D">>,
                   <<"D", "E", "L">>, <<"I", "N", "C", "R">>,
                   <<"I", "N", "C", "R", "B", "Y">>, <<"D", "E", "C", "R">>,
                   <<"D", "E", "C", "R", "B", "Y">>}
        /\ ret[1].write # None <=> ret[1].consensus

C25_Witness ==
    /\ call # None /\ call.fn = "extract_action" /\ ret # None
    /\ call.action = <<"s", "e", "t">>
    /\ Len(call.args) = 4
    /\ ret[1].ok
    /\ ret[1].consensus
    /\ ret[1].write # None
    /\ ret[1].write[1].expires_at = Some(7)

\* The ElectionVote that node n sends to p in this step
VoteSent(n, p, granted) ==
    chan'[<<n, p>>] = Append(chan[<<n, p>>],
        [type |-> "ElectionVote", term |-> term'[n], vote_granted |-> granted])

\* C26: on RequestVote(rv) the vote is granted iff the sender is a known
\* replica of the node's replid, the node's last_log_index is at most
\* rv.last_log_index, rv.term is above the node's term and the election
\* state permits voting; a granted vote leaves the node with term rv.term,
\* role Follower and voted_for the candidate, and a vote that is not
\* granted leaves term, role and election state as they were.
C26_VoteGrantedIff ==
    [][\A p \in Nodes : \A n \in Nodes \ {p} :
          DeliverRequestVote(p, n) =>
            LET rv == Head(chan[<<p, n>>])
                permitted ==
                    /\ p \in DOMAIN members[n]
                    /\ members[n][p].replid = replid[n]
                    /\ LastLogIndex(log[n]) <= rv.last_log_index
                    /\ rv.term > term[n]
                    /\ election_state[n].kind = "Follower"
                    /\ election_state[n].voted_for \subseteq {p}
            IN IF permitted
               THEN /\ VoteSent(n, p, TRUE)
                    /\ term'[n] = rv.term
                    /\ role'[n] = "Follower"
                    /\ election_state'[n] =
                          [kind |-> "Follower", voted_for |-> {p}]
               ELSE /\ ~VoteSent(n, p, TRUE)
                    /\ term'[n] = term[n]
                    /\ role'[n] = role[n]
                    /\ election_state'[n] = election_state[n]]_vars

\* a vote for candidate c was granted by n and is on its way, n's log
\* being no longer than the candidate's was
C26_Witness ==
    \E n \in Nodes : \E c \in Nodes \ {n} :
        /\ election_state[n] = [kind |-> "Follower", voted_for |-> {c}]
        /\ role[n] = "Follower"
        /\ term[n] = 1
        /\ log[n] # <<>>
        /\ \E i \in 1..Len(chan[<<n, c>>]) :
              chan[<<n, c>>][i] =
                  [type |-> "ElectionVote", term |-> 1, vote_granted |-> TRUE]

\* C27 as stated: every RequestVote that the actor processes is answered
\* with an ElectionVote carrying (self.term, vote_granted) to the
\* candidate, granted or not, the candidate a known replica or not.
C27_EveryRequestVoteAnswered ==
    [][\A p \in Nodes : \A n \in Nodes \ {p} :
          DeliverRequestVote(p, n) =>
            \E g \in BOOLEAN : VoteSent(n, p, g)]_vars

\* C27 as the code has it: a RequestVote of a known replica is answered
\* with an ElectionVote carrying (self.term, vote_granted), granted or not;
\* a RequestVote of a candidate that is no known replica is dropped: no
\* message is sent and nothing changes.
C27_KnownCandidateAnswered ==
    [][\A p \in Nodes : \A n \in Nodes \ {p} :
          DeliverRequestVote(p, n) =>
            IF p \in DOMAIN members[n] /\ members[n][p].replid = replid[n]
            THEN \E g \in BOOLEAN : VoteSent(n, p, g)
            ELSE /\ \A q \in Nodes \ {n} : chan'[<<n, q>>] = chan[<<n, q>>]
                 /\ term'[n] = term[n]
                 /\ role'[n] = role[n]
                 /\ election_state'[n] = election_state[n]]_vars

\* a refusal is on its way to a candidate
C27_Witness ==
    \E n \in Nodes : \E c \in Nodes \ {n} :
        \E i \in 1..Len(chan[<<n, c>>]) :
            /\ chan[<<n, c>>][i].type = "ElectionVote"
            /\ ~chan[<<n, c>>][i].vote_granted

\* C28 as stated: an AppendEntriesRPC with hb.term < self.term is answered
\* with a rejection ReplicationAck of reason ReceiverHasHigherTerm and
\* changes nothing else: log, hwm, term, role, election state and the
\* election timer's mode stay as they were.
C28_OutdatedTermOnlyRejected ==
    [][\A p \in Nodes : \A n \in Nodes \ {p} :
          (DeliverAppendEntries(p, n) /\ Head(chan[<<p, n>>]).hb.term < term[n])
          => /\ chan' = [chan EXCEPT
                   ![<<p, n>>] = Tail(@),
                   ![<<n, p>>] = Append(@,
                       [type |-> "ReplicationAck", from |-> n,
                        log_idx |-> LastLogIndex(log[n]), term |-> term[n],
                        rej_reason |-> "ReceiverHasHigherTerm"])]
             /\ UNCHANGED <<log, hwm, term, role, election_state, sched,
                            members, consensus_tracker, client_sessions,
                            commits, applied>>]_vars

\* C28 as the code has it: the same, the rejection being sent when the
\* sender is among the receiver's members; to a sender that is no member
\* (forgotten while its rpc was queued) nothing is sent.
C28_OutdatedTermRejectedIfMember ==
    [][\A p \in Nodes : \A n \in Nodes \ {p} :
          (DeliverAppendEntries(p, n) /\ Head(chan[<<p, n>>]).hb.term < term[n])
          => /\ chan' = [chan EXCEPT
                   ![<<p, n>>] = Tail(@),
                   ![<<n, p>>] =
                       IF p \in DOMAIN members[n]
                       THEN Append(@,
                              [type |-> "ReplicationAck", from |-> n,
                               log_idx |-> LastLogIndex(log[n]),
                               term |-> term[n],
                               rej_reason |-> "ReceiverHasHigherTerm"])
                       ELSE @]
             /\ UNCHANGED <<log, hwm, term, role, election_state, sched,
                            members, consensus_tracker, client_sessions,
                            commits, applied>>]_vars

\* the rejection of an append-entries of a lower term is on its way
C28_Witness ==
    \E n \in Nodes : \E p \in Nodes \ {n} :
        /\ term[p] < term[n]
        /\ \E i \in 1..Len(chan[<<n, p>>]) :
              /\ chan[<<n, p>>][i].type = "ReplicationAck"
              /\ chan[<<n, p>>][i].rej_reason = "ReceiverHasHigherTerm"
              /\ chan[<<n, p>>][i].term = term[n]

\* C29: for each tracked log index a peer contributes at most one vote;
\* hwm is incremented by one and the callback completed with
\* LogIndex(index) exactly once, when the distinct voters first reach
\* required_votes; duplicate acks and later acks for the index change
\* neither hwm nor any callback.
C29_OneVotePerPeer ==
    [][\A p \in Nodes : \A n \in Nodes \ {p} :
          (DeliverReplicationAck(p, n)
             /\ Head(chan[<<p, n>>]).rej_reason = "None") =>
            LET idx == Head(chan[<<p, n>>]).log_idx
                found == {v \in consensus_tracker[n] : v.idx = idx}
                reached == \E v \in found :
                              Cardinality(v.voters \cup {p}) >= v.required
                Seen(sq) == {sq[i] : i \in 1..Len(sq)}
            IN IF reached
               THEN /\ \A v \in found : p \notin v.voters
                    /\ hwm'[n] = hwm[n] + 1
                    /\ event'.type = "resp" /\ event'.kind = "LogIndex"
                    /\ event'.idx = idx
                    /\ idx \notin Seen(commits[n])
                    /\ commits'[n] = Append(commits[n], idx)
                    /\ \A v \in consensus_tracker'[n] : v.idx # idx
               ELSE /\ hwm'[n] = hwm[n]
                    /\ event'.type # "resp"
                    /\ commits'[n] = commits[n]
                    /\ consensus_tracker'[n] =
                          {[v EXCEPT
                               !.voters = IF v.idx = idx
                                          THEN @ \cup {p} ELSE @,
                               !.cnt = IF v.idx = idx
                                       THEN Cardinality(v.voters \cup {p})
                                       ELSE @] :
                             v \in consensus_tracker[n]}]_vars

\* a granted ack of peer p for the index is on its way to leader n
AckOnItsWay(p, n, idx) ==
    \E i \in 1..Len(chan[<<p, n>>]) :
        /\ chan[<<p, n>>][i].type = "ReplicationAck"
        /\ chan[<<p, n>>][i].rej_reason = "None"
        /\ chan[<<p, n>>][i].log_idx = idx

\* the second of two replicas has voted for index 1 and the leader has
\* committed it, with a later ack for index 1 on its way; index 2 has one
\* of its two votes and a second ack of the same peer on its way
C29_Witness ==
    \E n \in Nodes : \E p \in Nodes \ {n} : \E q \in Nodes \ {n} :
        /\ role[n] = "Leader"
        /\ hwm[n] = 1
        /\ commits[n] = <<1>>
        /\ \A v \in consensus_tracker[n] : v.idx # 1
        /\ AckOnItsWay(q, n, 1)
        /\ \E v \in consensus_tracker[n] :
              /\ v.idx = 2
              /\ v.voters = {p}
              /\ v.required = 2
              /\ AckOnItsWay(p, n, 2)

\* C30: when the leader handles a ReplicationAck rejected with
\* LogInconsistency, that follower's match_index is afterwards strictly
\* lower than before, or stays 0.
C30_RejectionLowersMatchIndex ==
    [][\A p \in Nodes : \A n \in Nodes \ {p} :
          (DeliverReplicationAck(p, n)
             /\ Head(chan[<<p, n>>]).rej_reason = "LogInconsistency"
             /\ p \in DOMAIN members[n]) =>
            \/ members'[n][p].match_index < members[n][p].match_index
            \/ members'[n][p].match_index = 0
                  /\ members[n][p].match_index = 0]_vars

\* a committed entry of the request kind in the log of n
CommittedRequest(n, req) ==
    \E i \in 1..Len(log[n]) : log[n][i].req = req /\ log[n][i].log_index <= hwm[n]

\* C31: the target of a non-empty batch stores the entries in its cache and
\* sends the success ack only when its MSet consensus request completed
\* with a commit, not when it was answered with an error.
C31_BatchStoredOnlyOnCommit ==
    [][\A t \in tasks :
          SendBatchAck(t) =>
             t.resp = "LogIndex" /\ CommittedRequest(t.node, "mset")]_vars

\* C32: after a successful MigrationBatchAck the source deletes the
\* migrated keys from its cache and emits TryUnblockWriteReqs only when its
\* Delete consensus request has committed.
C32_KeysDeletedOnlyOnCommit ==
    [][\A t \in tasks :
          TryUnblockWriteReqs(t) =>
             t.resp = "LogIndex" /\ CommittedRequest(t.node, "delete")]_vars

\* C33: a TryUnblockWriteReqs handled while a batch is still in
\* pending_migrations leaves hash_ring, pending_requests and
\* pending_migrations unchanged and re-enqueues nothing; otherwise the ring
\* has the current shard leaders and both pending_requests and
\* pending_migrations become None.
C33_UnblockOnlyWhenDone ==
    [][\A t \in tasks :
          TryUnblockWriteReqs(t) =>
             LET n == t.node
                 pm == pending_migrations[n]
             IN IF pm # None /\ pm[1] # {}
                THEN /\ hash_ring'[n] = hash_ring[n]
                     /\ pending_requests'[n] = pending_requests[n]
                     /\ pending_migrations'[n] = pm
                     /\ tasks' = tasks \ {t}
                ELSE /\ hash_ring'[n].partitions = ShardLeaders(n)
                     /\ pending_requests'[n] = None
                     /\ pending_migrations'[n] = None]_vars

\* a TryUnblockWriteReqs was handled while another batch was pending and a
\* client write was queued
C33_Witness ==
    /\ event.type = "unblock"
    /\ pending_migrations[event.node] # None
    /\ pending_migrations[event.node][1] # {}
    /\ pending_requests[event.node] # None
    /\ pending_requests[event.node][1] # <<>>

\* C40: pending_requests is Some exactly when pending_migrations is Some.
C40_PendingBothOrNeither ==
    \A n \in Nodes : (pending_requests[n] = None) <=> (pending_migrations[n] = None)

\* the last batch is done: the unblock has taken the queued writes and left
\* both maps None
C40_Witness ==
    /\ event.type = "unblock"
    /\ event.drain # <<>>
    /\ pending_requests[event.node] = None
    /\ pending_migrations[event.node] = None

OfferedRing(p, n) == Head(chan[<<p, n>>]).hb.hashring

\* the offered ring is absent, equal to the local ring, or older
NotNewer(offered, ring) ==
    \/ offered = None
    \/ offered[1] = ring
    \/ offered[1].last_modified < ring.last_modified

\* C35: a cluster heartbeat whose ring is absent, equal to the local ring or
\* of strictly smaller last_modified leaves hash_ring, pending_requests and
\* pending_migrations unchanged and schedules no migration batch; the
\* local ring's last_modified never decreases by a heartbeat.
C35_StaleRingIgnored ==
    [][\A p \in Nodes : \A n \in Nodes \ {p} :
          DeliverClusterHeartBeat(p, n) =>
            /\ hash_ring'[n].last_modified >= hash_ring[n].last_modified
            /\ NotNewer(OfferedRing(p, n), hash_ring[n]) =>
                  /\ hash_ring'[n] = hash_ring[n]
                  /\ pending_requests'[n] = pending_requests[n]
                  /\ pending_migrations'[n] = pending_migrations[n]
                  /\ tasks' = tasks
                  /\ batch_seq' = batch_seq]_vars

\* a heartbeat that offers a ring older than the receiver's, with other
\* partitions, is next in the receiver's stream
C35_Witness ==
    \E p \in Nodes : \E n \in Nodes \ {p} :
        /\ chan[<<p, n>>] # <<>>
        /\ Head(chan[<<p, n>>]).type = "ClusterHeartBeat"
        /\ OfferedRing(p, n) # None
        /\ OfferedRing(p, n)[1].last_modified < hash_ring[n].last_modified
        /\ OfferedRing(p, n)[1].partitions # hash_ring[n].partitions
        /\ ~InBanList(banlist[n], p)

\* the append-entries heartbeat that this step has queued from n to p
QueuedRpc(n, p) ==
    /\ Len(chan'[<<n, p>>]) = Len(chan[<<n, p>>]) + 1
    /\ chan'[<<n, p>>][Len(chan'[<<n, p>>])].type = "AppendEntriesRPC"

\* the entry of lg that precedes position pos, (0, 0) before the first
EntryBefore(lg, pos) ==
    IF pos = 1 THEN [log_index |-> 0, term |-> 0]
    ELSE [log_index |-> lg[pos - 1].log_index, term |-> lg[pos - 1].term]

\* C36: the append-entries message the leader builds for a follower holds
\* exactly the leader's entries above that follower's match_index, and its
\* prev_log_index and prev_log_term are those of the leader's entry just
\* before the first entry sent, (0, 0) when there is none, whatever the
\* other followers' match indexes are.
C36_EntriesAboveMatchIndex ==
    [][\A n \in Nodes : \A p \in Nodes \ {n} :
          QueuedRpc(n, p) =>
            LET hb == chan'[<<n, p>>][Len(chan'[<<n, p>>])].hb
                lg == log'[n]
                m == members[n][p].match_index
                above == SelectSeq(lg, LAMBDA e : e.log_index > m)
                prev == EntryBefore(lg, Len(lg) - Len(above) + 1)
            IN /\ hb.append_entries = above
               /\ above # <<>> =>
                     /\ hb.prev_log_index = prev.log_index
                     /\ hb.prev_log_term = prev.term]_vars

\* a message for a follower that is behind another one is on its way: it
\* starts after the follower's own match_index, with the entry before it
C36_Witness ==
    \E n \in Nodes : \E p \in Nodes \ {n} : \E q \in Nodes \ {n, p} :
        /\ role[n] = "Leader"
        /\ members[n][p].match_index = 1
        /\ members[n][q].match_index = 2
        /\ chan[<<n, p>>] # <<>>
        /\ LET msg == chan[<<n, p>>][Len(chan[<<n, p>>])]
           IN /\ msg.type = "AppendEntriesRPC"
              /\ msg.hb.prev_log_index = 1
              /\ Len(msg.hb.append_entries) = 1
              /\ msg.hb.append_entries[1].log_index = 2

\* C37: a follower applies each log index to the cache at most once: no
\* index is applied by two runs of replicate_state, also when an earlier
\* run stopped at a missing entry with a LogInconsistency rejection.
C37_AppliedAtMostOnce ==
    \A n \in Nodes : \A i \in 1..Len(applied[n]) : \A j \in 1..Len(applied[n]) :
        applied[n][i] = applied[n][j] => i = j

\* C38: election safety: in a replication group no two nodes are Leader in
\* the same term, whatever the order in which RequestVote and ElectionVote
\* messages arrive, late ElectionVote replies of an earlier election
\* included.
C38_OneLeaderPerTerm ==
    \A a \in Nodes : \A b \in Nodes \ {a} :
        (role[a] = "Leader" /\ role[b] = "Leader" /\ replid[a] = replid[b])
            => term[a] # term[b]

\* node n has never truncated its log on a term mismatch
NeverTruncated(n) == \A p \in Nodes : <<n, p>> \notin truncated

\* C39: committed writes survive leader changes. When a node becomes
\* leader, it has, at every index for which another node of the group has
\* completed a callback with LogIndex, the entry that node committed there
\* (the committing node's log is compared as long as it was never
\* truncated); and no step removes from a follower's log an entry at an
\* index <= its own hwm.
C39_CommittedWritesSurvive ==
    [][/\ \A l \in Nodes :
            (role[l] # "Leader" /\ role'[l] = "Leader") =>
               \A n \in Nodes \ {l} :
                  (replid[n] = replid[l] /\ NeverTruncated(n)) =>
                     \A k \in DOMAIN commits[n] :
                        \A e \in ReadAt(log[n], commits[n][k]) :
                           \E d \in ReadAt(log'[l], commits[n][k]) :
                              d.term = e.term /\ d.req = e.req
       /\ \A n \in Nodes :
            (role[n] = "Follower" /\ role'[n] = "Follower") =>
               \A i \in 1..Len(log[n]) :
                  log[n][i].log_index <= hwm[n] =>
                     ReadAt(log'[n], log[n][i].log_index) # {}]_vars
====
